---- MODULE Spec2Model ----
(***************************************************************************)
(* A model of 3DS: the chunked object storage (core.Storage), the block    *)
(* store (blocks.Store) and the overlay network (p2p.Network).             *)
(*                                                                         *)
(* Every specification below shares the variables; a specification leaves  *)
(* the variables of the other components at their initial value.           *)
(***************************************************************************)
EXTENDS Integers, Sequences, FiniteSets, TLC

(***************************************************************************)
(* Bounds of the model and program constants.                              *)
(***************************************************************************)
\* core.ChunkSize, scaled: the program's 5 MiB is 2 bytes here, so that a
\* stream of MaxLen bytes spans several chunk boundaries.
ChunkSize == 2
\* The longest input stream given to StoreModel.
MaxLen == 5
\* The number of StoreModel calls of a behaviour.
MaxModels == 2
\* The number of StreamModel calls that may be in progress together.
MaxStreams == 1
\* The number of directories that failed os.RemoveAll calls may leave on disk.
MaxOrphans == 1
\* The longest payload given to StoreBlock.
MaxPayload == 2
\* The number of concurrent callers of the block store.
NumCallers == 2
\* The longest list of cfg.BootstrapPeers.
MaxBootstrap == 2
\* The longest list of cfg.BootstrapPeers where messages and Stop are checked too.
MaxBootstrapNet == 1
\* The number of messages that reach the node.
MaxMsgs == 3
\* The most vertices of a model given to ProcessModelData.
MaxVertices == 2
\* The number of failed reads of the subscription the receive loop is followed for.
MaxReadErrs == 2
\* The number of StoreModel calls where the locks are checked.
MaxLockModels == 1

Streamers == 1..MaxStreams
Names == {"a.gltf"}
Formats == {"gltf"}

\* The input streams: the bytes of a stream are its positions 1..n, so that a
\* lost, repeated or reordered byte always shows (the code never looks at the
\* value of a byte).
Stream(n) == [i \in 1..n |-> i]
Streams == {Stream(n) : n \in 0..MaxLen}

Min(a, b) == IF a < b THEN a ELSE b

\* The elements of a slice.
Elements(l) == {l[i] : i \in DOMAIN l}

VARIABLES
    \* ---- core.Storage
    metadata,   \* Storage.metadata: id -> ModelMetadata (the catalog)
    disk,       \* basePath: id -> directory, a directory: index -> chunk file
    nstore,     \* the number of StoreModel calls so far
    st,         \* the StoreModel call that holds Storage.mu, its locals
    sm,         \* per streamer: the StreamModel call in progress, its locals
    ret,        \* the call that returned in the last step and what it returned
    stored,     \* history: id -> [meta, input, lens] of every successful StoreModel:
                \* what it returned, its input, the lengths of its chunk files
    gone,       \* history: the ids whose catalog entry DeleteModel removed
    deleted     \* history: the ids for which DeleteModel returned success

storageVars == <<metadata, disk, nstore, st, sm, ret, stored, gone, deleted>>

VARIABLES
    \* ---- blocks.Store
    blocks,     \* basePath: file name (a hash) -> content
    bmu,        \* Store.mu: the writer holding it (0: none) and the readers
    bcall,      \* per caller: the call in progress, its position and locals
    bret,       \* the call that returned in the last step and what it returned
    ident,      \* history: payload -> the identifier StoreBlock first returned
    live        \* history: the hashes stored with success and not removed since

blockVars == <<blocks, bmu, bcall, bret, ident, live>>

VARIABLES
    \* ---- p2p.Network
    cfgBoot,    \* cfg.BootstrapPeers: a list of addresses
    comp,       \* the fields host, dht, pubsub, topic, subscription of Network, and
                \* the mDNS service: "nil", "open" or "closed"
    peers,      \* Network.peers: the set of its keys
    succeeded,  \* history: the peers for which a connectToPeer call returned nil
    nctxDone,   \* the context given to Start is cancelled
    start,      \* the call of Start: its position, its result, the steps it ran
    bootIdx,    \* connectToBootstrapPeers: the index of the current entry
    bo,         \* connectToPeerWithBackoff: the call in progress, its locals
    boRet,      \* history: the connectToPeerWithBackoff calls that returned, each
                \* with its error, its attempts, its waits, its last backoff and
                \* whether the context was cancelled by then
    loop,       \* handleMessages: "none", "running" or "exited"
    subq,       \* the messages the subscription holds for Next
    nmsg,       \* the number of messages that reached the node
    rejected,   \* history: the messages pubsub dropped before the subscription
    pulled,     \* history: the messages Next returned to handleMessages
    dispatched, \* history: the messages given to processMessage
    returned,   \* the indices in dispatched of the processMessage calls that returned
    stop,       \* the call of Stop: its position, its result, the closes it made
    found,      \* the last HandlePeerFound that returned: its peer, the error of its
                \* last attempt, its attempts and the waits between them
    readErrs    \* the reads of the subscription that returned an error after which
                \* the receive loop went on

netVars == <<cfgBoot, comp, peers, succeeded, nctxDone, start, bootIdx, bo, boRet,
             loop, subq, nmsg, rejected, pulled, dispatched, returned, stop,
             found, readErrs>>

VARIABLES
    \* ---- the readers of Storage.mu and of Network.mu
    muReaders,  \* the callers of ListModels, GetModel or GetStatus that hold
                \* Storage.mu for reading
    nmuReaders  \* the callers of GetPeers that hold Network.mu for reading

lockVars == <<muReaders, nmuReaders>>

VARIABLES
    \* ---- blocks.Service
    pm,         \* the call of ProcessModelData in progress: its vertices, the index
                \* of the next one, the hashes it has, the directory it began with
    pmRet       \* the call of ProcessModelData that returned in the last step

serviceVars == <<pm, pmRet>>

VARIABLES
    \* ---- core.Node
    node        \* the calls of Node.Start and Node.Stop: their positions and
                \* results, and the background tasks launched, in order

nodeVars == <<node>>

VARIABLES
    \* ---- further calls of Network.Start and Network.Stop
    again       \* how many calls of Start and of Stop followed the first ones

lifeVars == <<again>>

VARIABLES
    \* ---- main and the API server
    app         \* the position of main, the Network the API holds, and the
                \* requests the network handlers of the API have served

appVars == <<app>>

VARIABLES
    \* ---- core.ObjectService and the objects of core.Storage
    objects,    \* basePath/objects: object id -> what its metadata.json holds
    nobj,       \* how many object ids generateUUID has handed out
    oc,         \* the call of CreateObject or DeleteObject under way
    oret        \* what the last call of the object service returned

objVars == <<objects, nobj, oc, oret>>

VARIABLES
    \* ---- DeleteModel with the steps of its os.RemoveAll
    dm          \* the DeleteModel call that holds Storage.mu while it removes the
                \* files of the directory one by one

delVars == <<dm>>

VARIABLES
    \* ---- core.Organizer
    collections,    \* Organizer.collections: key -> *Collection
    heap,           \* the Collection values made so far, by address
    cret            \* what the last call of the organizer returned

orgVars == <<collections, heap, cret>>

\* The variables no step of the components above touches.
restVars == <<delVars, orgVars>>

vars == <<storageVars, blockVars, netVars, lockVars, serviceVars, nodeVars, lifeVars,
          appVars, objVars, restVars>>

\* A step of one component leaves the others as they are.
StorageStep ==
    UNCHANGED <<blockVars, netVars, lockVars, serviceVars, nodeVars, lifeVars,
               appVars, objVars, restVars>>
BlocksStep ==
    UNCHANGED <<storageVars, netVars, lockVars, serviceVars, nodeVars, lifeVars,
               appVars, objVars, restVars>>
NetStep ==
    UNCHANGED <<storageVars, blockVars, lockVars, serviceVars, nodeVars, lifeVars,
               appVars, objVars, restVars>>
ServiceStep ==
    UNCHANGED <<storageVars, netVars, lockVars, nodeVars, lifeVars,
               appVars, objVars, restVars>>
\* A step that begins a further call of Start or Stop.
AgainStep ==
    UNCHANGED <<storageVars, blockVars, lockVars, serviceVars, nodeVars, appVars,
                objVars, restVars>>
MainStep ==
    UNCHANGED <<storageVars, blockVars, netVars, lockVars, serviceVars, nodeVars,
                lifeVars, objVars, restVars>>
\* A step of the object service works on the objects, the blocks and the call of
\* ProcessModelData.
ObjectStep ==
    UNCHANGED <<storageVars, netVars, lockVars, nodeVars, lifeVars, appVars,
                restVars>>
\* A step of DeleteModel works on the storage.
DeleteStep ==
    UNCHANGED <<blockVars, netVars, lockVars, serviceVars, nodeVars, lifeVars,
                appVars, objVars, orgVars>>
OrganizerStep ==
    UNCHANGED <<storageVars, blockVars, netVars, lockVars, serviceVars, nodeVars,
                lifeVars, appVars, objVars, delVars>>
NodeStep ==
    UNCHANGED <<storageVars, blockVars, netVars, lockVars, serviceVars, lifeVars,
               appVars, objVars, restVars>>

----------------------------------------------------------------------------
(***************************************************************************)
(* core.Storage                                                            *)
(*                                                                         *)
(* StoreModel holds the write lock of Storage.mu from its first line to    *)
(* its return, so at most one StoreModel is past the lock: st. DeleteModel *)
(* and the lookups hold the lock for their whole body and touch nothing    *)
(* outside it: each is one step, taken when no StoreModel holds the lock.  *)
(* StreamModel holds the read lock for its lookup only; its loop runs      *)
(* without any lock.                                                       *)
(***************************************************************************)
EmptyDir == [i \in {} |-> <<>>]
NoMeta == [ID |-> 0, Name |-> "", Format |-> "", Size |-> 0, Chunks |-> <<>>]
EmptyCatalog == [i \in {} |-> NoMeta]
\* No StoreModel call is in progress.
NoStore == [pc |-> "idle", id |-> 0, name |-> "", format |-> "", input |-> <<>>,
            rest |-> <<>>, chunks |-> <<>>, totalSize |-> 0, chunkIndex |-> 0,
            cat0 |-> EmptyCatalog]
\* No StreamModel call is in progress.
NoStream == [pc |-> "idle", id |-> 0, nchunks |-> 0, i |-> 0, out |-> <<>>,
             was |-> ""]
\* No call returned in the last step.
NoReturn == [op |-> "", id |-> 0, err |-> "nil", meta |-> NoMeta, out |-> <<>>,
             index |-> -1, at |-> -1, was |-> "", cat0 |-> EmptyCatalog,
             cleanup |-> ""]

\* s.mu.RLock() returns: no StoreModel holds the write lock.
muCanRLock == st.pc = "idle"

\* A write lock that does not wait for the readers.
muFreeOfWriters == st.pc = "idle"

\* s.mu.Lock() returns: no StoreModel holds the write lock and no reader the
\* read lock.
muFree == st.pc = "idle" /\ muReaders = {}

\* What the id was when a call began: one whose DeleteModel had returned success,
\* one of the catalog, or neither.
Was(id) == IF id \in deleted THEN "deleted"
           ELSE IF id \in DOMAIN metadata THEN "stored" ELSE "unknown"

InitStorage ==
    /\ metadata = EmptyCatalog
    /\ disk = [i \in {} |-> EmptyDir]
    /\ nstore = 0
    /\ st = NoStore
    /\ sm = [k \in Streamers |-> NoStream]
    /\ ret = NoReturn
    /\ stored = [i \in {} |-> [meta |-> NoMeta, input |-> <<>>, lens |-> <<>>]]
    /\ gone = {}
    /\ deleted = {}

\* ModelUUID: an identifier that no earlier call returned. That of the n-th
\* StoreModel call is n; that of a chunk is the pair of its model and its index.
ModelUUID == nstore + 1
ChunkUUID(id, index) == <<id, index>>

\* A buffer of two chunks.
BufferLenDouble == ChunkSize + ChunkSize

\* splitAndStoreChunks, line 90: buffer := make([]byte, ChunkSize)
BufferLen == ChunkSize

\* reader.Read(buffer) with len(buffer) = ChunkSize on a reader that still has
\* `rest` to deliver: what an io.Reader may return. "nil" with 0 < n: a full or a
\* short read; "EOF" with n = 0 at the end of the stream; "EOF" together with the
\* final n > 0 bytes; "err": a read error.
ReadResults(rest) ==
    {[n |-> n, err |-> "nil"] : n \in 1..Min(BufferLen, Len(rest))}
    \cup (IF Len(rest) <= BufferLen THEN {[n |-> Len(rest), err |-> "EOF"]} ELSE {})
    \cup {[n |-> 0, err |-> "err"]}

\* os.WriteFile(path, data): the file holds data; or the call fails, before the file
\* exists or leaving a file with only the first k bytes.
WriteFileResults(dir, index, data) ==
    {[dir |-> (index :> data) @@ dir, err |-> "nil"]}
    \cup {[dir |-> dir, err |-> "err"]}
    \cup {[dir |-> (index :> SubSeq(data, 1, k)) @@ dir, err |-> "err"] :
            k \in 0..(Len(data) - 1)}

\* os.RemoveAll(basePath/id): the directory is gone; or the call fails and the
\* directory stays, with its files or emptied.
RemoveAllResults(d, id) ==
    {[disk |-> [j \in DOMAIN d \ {id} |-> d[j]], err |-> "nil"]}
    \cup (IF id \in DOMAIN d
          THEN {[disk |-> d, err |-> "err"],
                [disk |-> [d EXCEPT ![id] = EmptyDir], err |-> "err"]}
          ELSE {})

\* The directories on disk of no catalogued and no half-stored model, and whether
\* the bound of the model lets another os.RemoveAll fail.
Orphans == DOMAIN disk \ (DOMAIN metadata \cup {st.id})
MayFail(r) == r.err = "nil" \/ Cardinality(Orphans) < MaxOrphans

\* An insert that forgets the other entries.
CatalogInsertAlone(cat, m) == (m.ID :> m)

\* s.metadata[metadata.ID] = metadata
CatalogInsert(cat, m) == (m.ID :> m) @@ cat

\* A delete that leaves the entry.
CatalogDeleteNothing(cat, id) == cat

\* delete(s.metadata, modelID)
CatalogDelete(cat, id) == [j \in DOMAIN cat \ {id} |-> cat[j]]

\* A lookup that finds an empty entry for an id the catalog does not have.
getMetadataLenient(id) ==
    IF id \in DOMAIN metadata
    THEN [meta |-> metadata[id], err |-> "nil"]
    ELSE [meta |-> NoMeta, err |-> "nil"]

\* getMetadata: the entry of the catalog, or the error "model not found".
getMetadata(id) ==
    IF id \in DOMAIN metadata
    THEN [meta |-> metadata[id], err |-> "nil"]
    ELSE [meta |-> NoMeta, err |-> "notfound"]

\* GetModel, lines 239-245: what it returns when it gets the read lock.
GetModel(id) == getMetadata(id)

\* GetModelMetadata, lines 146-154: what it returns when it gets the read lock.
GetModelMetadata(id) == getMetadata(id)

\* The sequences that hold each element of S once: the orders in which a range over
\* a map may visit its keys.
Orders(S) == {f \in [1..Cardinality(S) -> S] : \A x \in S : \E i \in DOMAIN f : f[i] = x}

\* ListModels, lines 133-143: a copy of every entry, in the order of the range over
\* the map; the lists it may return when it gets the read lock.
ListModels == {[i \in DOMAIN o |-> metadata[o[i]]] : o \in Orders(DOMAIN metadata)}

\* StoreModel, lines 49-66: the write lock, the metadata, the model directory.
StoreModelBegin(name, format, S) ==
    /\ muFree
    /\ nstore' = nstore + 1
    /\ UNCHANGED <<metadata, sm, stored, gone, deleted>>
    /\ \/ \* os.MkdirAll fails: return nil, err
          /\ ret' = [NoReturn EXCEPT !.op = "StoreModel", !.id = ModelUUID,
                                     !.err = "mkdir", !.cat0 = metadata]
          /\ UNCHANGED <<disk, st>>
       \/ /\ disk' = (ModelUUID :> EmptyDir) @@ disk
          /\ st' = [NoStore EXCEPT !.pc = "split", !.id = ModelUUID,
                       !.name = name, !.format = format, !.input = S, !.rest = S,
                       !.cat0 = metadata]
          /\ ret' = NoReturn

\* A cleanup that removes nothing.
CleanupSkipped(d, id) == {[disk |-> d, err |-> "nil"]}

\* StoreModel, line 72: os.RemoveAll(modelPath).
Cleanup(d, id) == RemoveAllResults(d, id)

\* StoreModel, lines 70-74: splitAndStoreChunks failed; clean up, return nil, err.
\* The error of os.RemoveAll is dropped. (ret.index: the chunks written before.)
StoreModelFail(d, err) ==
    /\ \E r \in Cleanup(d, st.id) :
          /\ MayFail(r)
          /\ disk' = r.disk
          /\ ret' = [NoReturn EXCEPT !.op = "StoreModel", !.id = st.id,
                        !.err = err, !.cat0 = st.cat0, !.cleanup = r.err,
                        !.index = st.chunkIndex]
    /\ st' = NoStore
    /\ UNCHANGED <<metadata, stored>>

\* StoreModel, lines 76-83: the metadata enters the catalog and is returned.
StoreModelFinish ==
    LET m == [ID |-> st.id, Name |-> st.name, Format |-> st.format,
              Size |-> st.totalSize, Chunks |-> st.chunks]
    IN /\ metadata' = CatalogInsert(metadata, m)
       /\ ret' = [NoReturn EXCEPT !.op = "StoreModel", !.id = st.id, !.meta = m,
                                  !.cat0 = st.cat0]
       /\ stored' = (st.id :> [meta |-> m, input |-> st.input,
                                lens |-> [j \in DOMAIN disk[st.id] |->
                                             Len(disk[st.id][j])]]) @@ stored
       /\ st' = NoStore
       /\ UNCHANGED disk

\* splitAndStoreChunks, lines 93-122: one turn of the loop.
SplitStep ==
    /\ st.pc = "split"
    /\ UNCHANGED <<nstore, sm, gone, deleted>>
    /\ \/ \* case <-ctx.Done(): the context is cancelled
          StoreModelFail(disk, "cancelled")
       \/ \E r \in ReadResults(st.rest) :
            CASE r.err = "err" -> StoreModelFail(disk, "read")
              [] r.err = "EOF" -> StoreModelFinish
              [] OTHER ->
                  LET data == SubSeq(st.rest, 1, r.n)
                  IN \E w \in WriteFileResults(disk[st.id], st.chunkIndex, data) :
                       IF w.err # "nil"
                       THEN StoreModelFail([disk EXCEPT ![st.id] = w.dir], "write")
                       ELSE /\ disk' = [disk EXCEPT ![st.id] = w.dir]
                            /\ st' = [st EXCEPT
                                   !.rest = SubSeq(st.rest, r.n + 1, Len(st.rest)),
                                   !.chunks = Append(st.chunks,
                                                     ChunkUUID(st.id, st.chunkIndex)),
                                   !.totalSize = st.totalSize + r.n,
                                   !.chunkIndex = st.chunkIndex + 1]
                            /\ ret' = NoReturn
                            /\ UNCHANGED <<metadata, stored>>

\* The ids a caller may ask for: the catalogued and the once catalogued ones, the
\* ids of directories left on disk, and one that never was.
AskedIDs == {0} \cup DOMAIN stored \cup DOMAIN disk

\* A return that drops the error of the removal.
DeleteResultDropped(err) == "nil"

\* DeleteModel, line 181: return os.RemoveAll(modelPath)
DeleteResult(err) == IF err = "nil" THEN "nil" ELSE "remove"

\* DeleteModel, lines 167-182.
DeleteModel(id) ==
    /\ muFree
    /\ UNCHANGED <<nstore, st, sm, stored>>
    /\ IF id \notin DOMAIN metadata
       THEN /\ ret' = [NoReturn EXCEPT !.op = "DeleteModel", !.id = id,
                                       !.err = "notfound", !.was = Was(id)]
            /\ UNCHANGED <<metadata, disk, gone, deleted>>
       ELSE /\ metadata' = CatalogDelete(metadata, id)
            /\ gone' = gone \cup {id}
            /\ \E r \in RemoveAllResults(disk, id) :
                 /\ MayFail(r)
                 /\ disk' = r.disk
                 /\ deleted' = IF r.err = "nil" THEN deleted \cup {id} ELSE deleted
                 /\ ret' = [NoReturn EXCEPT !.op = "DeleteModel", !.id = id,
                               !.err = DeleteResult(r.err),
                               !.was = Was(id)]

\* StreamModel returns. (ret.at: the index of the turn of the loop it returns from.)
StreamReturn(k, err, index, out) ==
    /\ ret' = [NoReturn EXCEPT !.op = "StreamModel", !.id = sm[k].id, !.err = err,
                               !.index = index, !.at = sm[k].i, !.out = out,
                               !.was = sm[k].was]
    /\ sm' = [sm EXCEPT ![k] = NoStream]

\* StreamModel, lines 209-216: the lookup under the read lock; with no chunk to
\* stream, lines 218 and 235.
StreamModelBegin(k, id) ==
    /\ sm[k].pc = "idle"
    /\ muCanRLock
    /\ UNCHANGED <<metadata, disk, nstore, st, stored, gone, deleted>>
    /\ IF getMetadata(id).err # "nil"
       THEN /\ ret' = [NoReturn EXCEPT !.op = "StreamModel", !.id = id,
                                       !.err = "notfound", !.was = Was(id)]
            /\ UNCHANGED sm
       ELSE IF Len(getMetadata(id).meta.Chunks) = 0
       THEN /\ ret' = [NoReturn EXCEPT !.op = "StreamModel", !.id = id,
                                       !.was = Was(id)]
            /\ UNCHANGED sm
       ELSE /\ sm' = [sm EXCEPT ![k] = [NoStream EXCEPT !.pc = "stream", !.id = id,
                         !.nchunks = Len(getMetadata(id).meta.Chunks),
                         !.was = Was(id)]]
            /\ ret' = NoReturn

\* What writer.Write(data) may leave written: all of data, or on an error a
\* part of it.
WriteResults(data) ==
    {[written |-> data, err |-> "nil"]}
    \cup {[written |-> SubSeq(data, 1, k), err |-> "err"] : k \in 0..(Len(data) - 1)}

\* A loop that leaves out every other chunk.
NextChunkSkip(i) == i + 2

\* StreamModel, line 218: i++
NextChunk(i) == i + 1

\* StreamModel, lines 218-235: one turn of the loop; after the last one, return nil.
StreamStep(k) ==
    LET c == sm[k] IN
    /\ c.pc = "stream"
    /\ UNCHANGED <<metadata, disk, nstore, st, stored, gone, deleted>>
    /\ \/ \* case <-ctx.Done(): the context is cancelled
          StreamReturn(k, "cancelled", -1, c.out)
       \/ \* os.ReadFile fails: the file is not there, or cannot be read
          StreamReturn(k, "readchunk", c.i, c.out)
       \/ /\ c.id \in DOMAIN disk
          /\ c.i \in DOMAIN disk[c.id]
          /\ \E w \in WriteResults(disk[c.id][c.i]) :
               IF w.err # "nil"
               THEN StreamReturn(k, "writechunk", c.i, c.out \o w.written)
               ELSE IF NextChunk(c.i) >= c.nchunks
               THEN StreamReturn(k, "nil", -1, c.out \o w.written)
               ELSE /\ sm' = [sm EXCEPT ![k] = [c EXCEPT !.i = NextChunk(c.i),
                                 !.out = c.out \o w.written]]
                    /\ ret' = NoReturn

----------------------------------------------------------------------------
(***************************************************************************)
(* blocks.Store                                                            *)
(*                                                                         *)
(* A call is made (it waits for Store.mu), takes the lock, and runs its    *)
(* body; the deferred Unlock is part of the step that returns.             *)
(***************************************************************************)
Callers == 1..NumCallers
Payloads == {Stream(n) : n \in 0..MaxPayload}

NoBlockCall == [pc |-> "idle", op |-> "", data |-> <<>>, hash |-> <<>>,
                second |-> FALSE]
NoBlockReturn == [op |-> "", data |-> <<>>, hash |-> <<>>, err |-> "nil",
                  block |-> <<>>, size |-> 0, wrote |-> FALSE, second |-> FALSE]

InitBlocks ==
    /\ blocks = [h \in {} |-> <<>>]
    /\ bmu = [writer |-> 0, readers |-> {}]
    /\ bcall = [c \in Callers |-> NoBlockCall]
    /\ bret = NoBlockReturn
    /\ ident = [P \in {} |-> <<>>]
    /\ live = {}

\* calculateHash: the hex form of the SHA-256 digest of the data, a function of the
\* content that gives different contents different digests.
calculateHash(data) == <<"sha256", data>>

\* The hashes a caller may ask for.
Hashes == {calculateHash(P) : P \in Payloads}

\* s.mu.Lock() and s.mu.RLock() return.
CanLock == bmu.writer = 0 /\ bmu.readers = {}
CanRLock == bmu.writer = 0

\* StoreBlock, GetBlock or DeleteBlock is called.
BlockCall(c, op, data, hash) ==
    /\ bcall[c].pc = "idle"
    /\ bcall' = [bcall EXCEPT ![c] = [NoBlockCall EXCEPT !.pc = "lock", !.op = op,
                                         !.data = data, !.hash = hash]]
    /\ bret' = NoBlockReturn
    /\ UNCHANGED <<blocks, bmu, ident, live>>

\* The call of c returns, releasing the lock.
BlockReturn(c, r) ==
    /\ bret' = r
    /\ bcall' = [bcall EXCEPT ![c] = NoBlockCall]
    /\ bmu' = [writer |-> 0, readers |-> bmu.readers \ {c}]

\* StoreBlock, lines 39-44: the lock, the hash, the path.
StoreBlockLock(c) ==
    /\ bcall[c].pc = "lock" /\ bcall[c].op = "StoreBlock"
    /\ CanLock
    /\ bmu' = [bmu EXCEPT !.writer = c]
    /\ bcall' = [bcall EXCEPT ![c].pc = "stat", ![c].hash = calculateHash(bcall[c].data),
                               ![c].second = calculateHash(bcall[c].data) \in live]
    /\ bret' = NoBlockReturn
    /\ UNCHANGED <<blocks, ident, live>>

\* StoreBlock, lines 47-49: os.Stat of the path; the block is there, return.
StoreBlockStat(c) ==
    LET b == bcall[c] IN
    /\ b.pc = "stat"
    /\ IF b.hash \in DOMAIN blocks
       THEN /\ BlockReturn(c, [NoBlockReturn EXCEPT !.op = "StoreBlock",
                       !.data = b.data, !.hash = b.hash, !.second = b.second])
            /\ ident' = IF b.data \in DOMAIN ident THEN ident
                        ELSE (b.data :> b.hash) @@ ident
            /\ live' = live \cup {b.hash}
            /\ UNCHANGED blocks
       ELSE /\ bcall' = [bcall EXCEPT ![c].pc = "write"]
            /\ bret' = NoBlockReturn
            /\ UNCHANGED <<blocks, bmu, ident, live>>

\* StoreBlock, lines 52-56: os.WriteFile of the block; return the hash or the error.
StoreBlockWrite(c) ==
    LET b == bcall[c] IN
    /\ b.pc = "write"
    /\ \E w \in WriteFileResults(blocks, b.hash, b.data) :
         /\ blocks' = w.dir
         /\ IF w.err = "nil"
            THEN /\ BlockReturn(c, [NoBlockReturn EXCEPT !.op = "StoreBlock",
                            !.data = b.data, !.hash = b.hash, !.wrote = TRUE,
                            !.second = b.second])
                 /\ ident' = IF b.data \in DOMAIN ident THEN ident
                             ELSE (b.data :> b.hash) @@ ident
                 /\ live' = live \cup {b.hash}
            ELSE /\ BlockReturn(c, [NoBlockReturn EXCEPT !.op = "StoreBlock",
                            !.data = b.data, !.err = "write", !.wrote = TRUE,
                            !.second = b.second])
                 /\ UNCHANGED <<ident, live>>

\* GetBlock, lines 61-62: the read lock.
GetBlockLock(c) ==
    /\ bcall[c].pc = "lock" /\ bcall[c].op = "GetBlock"
    /\ CanRLock
    /\ bmu' = [bmu EXCEPT !.readers = bmu.readers \cup {c}]
    /\ bcall' = [bcall EXCEPT ![c].pc = "read"]
    /\ bret' = NoBlockReturn
    /\ UNCHANGED <<blocks, ident, live>>

\* GetBlock, lines 64-77: os.ReadFile of the path; the block, "block not found",
\* or the error of the read.
GetBlockRead(c) ==
    LET b == bcall[c] IN
    /\ b.pc = "read"
    /\ UNCHANGED <<blocks, ident, live>>
    /\ IF b.hash \notin DOMAIN blocks
       THEN BlockReturn(c, [NoBlockReturn EXCEPT !.op = "GetBlock", !.hash = b.hash,
                                                !.err = "notfound"])
       ELSE \/ BlockReturn(c, [NoBlockReturn EXCEPT !.op = "GetBlock",
                                   !.hash = b.hash, !.block = blocks[b.hash],
                                   !.size = Len(blocks[b.hash])])
            \/ BlockReturn(c, [NoBlockReturn EXCEPT !.op = "GetBlock",
                                   !.hash = b.hash, !.err = "read"])

\* DeleteBlock, lines 82-83: the lock.
DeleteBlockLock(c) ==
    /\ bcall[c].pc = "lock" /\ bcall[c].op = "DeleteBlock"
    /\ CanLock
    /\ bmu' = [bmu EXCEPT !.writer = c]
    /\ bcall' = [bcall EXCEPT ![c].pc = "remove"]
    /\ bret' = NoBlockReturn
    /\ UNCHANGED <<blocks, ident, live>>

\* DeleteBlock, lines 85-86: os.Remove of the path; it fails when the file is not
\* there, and may fail when it is.
DeleteBlockRemove(c) ==
    LET b == bcall[c] IN
    /\ b.pc = "remove"
    /\ UNCHANGED ident
    /\ \/ /\ b.hash \in DOMAIN blocks
          /\ blocks' = [h \in DOMAIN blocks \ {b.hash} |-> blocks[h]]
          /\ live' = live \ {b.hash}
          /\ BlockReturn(c, [NoBlockReturn EXCEPT !.op = "DeleteBlock",
                                                  !.hash = b.hash])
       \/ /\ UNCHANGED <<blocks, live>>
          /\ BlockReturn(c, [NoBlockReturn EXCEPT !.op = "DeleteBlock",
                                 !.hash = b.hash, !.err = "remove"])

NextBlocks ==
    \/ \E c \in Callers, P \in Payloads :
         BlockCall(c, "StoreBlock", P, <<>>) /\ BlocksStep
    \/ \E c \in Callers, h \in Hashes : BlockCall(c, "GetBlock", <<>>, h) /\ BlocksStep
    \/ \E c \in Callers, h \in Hashes :
         BlockCall(c, "DeleteBlock", <<>>, h) /\ BlocksStep
    \/ \E c \in Callers : StoreBlockLock(c) /\ BlocksStep
    \/ \E c \in Callers : StoreBlockStat(c) /\ BlocksStep
    \/ \E c \in Callers : StoreBlockWrite(c) /\ BlocksStep
    \/ \E c \in Callers : GetBlockLock(c) /\ BlocksStep
    \/ \E c \in Callers : GetBlockRead(c) /\ BlocksStep
    \/ \E c \in Callers : DeleteBlockLock(c) /\ BlocksStep
    \/ \E c \in Callers : DeleteBlockRemove(c) /\ BlocksStep

----------------------------------------------------------------------------
(***************************************************************************)
(* blocks.Service (pkg/blocks/service.go).  One call of ProcessModelData   *)
(* at a time; each StoreBlock it makes holds Store.mu from its first line  *)
(* to its return and is one step, taken when the lock is free.             *)
(***************************************************************************)
\* The format tags a caller may give.
ServiceFormats == {"obj", "fbx", "gltf"}
\* encodeVertex(vertex): the bytes of a vertex, never empty.
VertexData == Payloads \ {<<>>}
\* importer.GetVertices(): the vertices of the model, encoded.
VertexLists == UNION {[1..n -> VertexData] : n \in 0..MaxVertices}

NoProcess == [pc |-> "idle", vertices |-> <<>>, i |-> 0, hashes |-> <<>>,
              dir0 |-> [h \in {} |-> <<>>]]
NoProcessReturn == [op |-> "", err |-> "nil", hashes |-> <<>>, stored |-> <<>>,
                    dir0 |-> [h \in {} |-> <<>>]]

InitService == pm = NoProcess /\ pmRet = NoProcessReturn

\* StoreBlock, lines 43-56, for a caller that holds the lock: the block is there
\* and its hash is returned; or os.WriteFile writes it; or os.WriteFile fails.
StoreBlockResults(dir, data) ==
    LET hash == calculateHash(data) IN
    IF hash \in DOMAIN dir
    THEN {[dir |-> dir, hash |-> hash, err |-> "nil"]}
    ELSE {[dir |-> w.dir, hash |-> IF w.err = "nil" THEN hash ELSE <<>>,
           err |-> IF w.err = "nil" THEN "nil" ELSE "write"] :
              w \in WriteFileResults(dir, hash, data)}

\* ProcessModelData returns.
ProcessModelDataReturn(err, hashes, done) ==
    /\ pmRet' = [op |-> "ProcessModelData", err |-> err, hashes |-> hashes,
                 stored |-> done, dir0 |-> IF pm.pc = "idle" THEN blocks ELSE pm.dir0]
    /\ pm' = NoProcess

\* ProcessModelData, lines 26-46: the importer of the format; an unsupported
\* format and an error of the import are returned.
ProcessModelDataBegin(format, imported, V) ==
    /\ pm.pc = "idle"
    /\ UNCHANGED <<blocks, bmu, bcall, bret, ident, live>>
    /\ IF format \notin {"obj", "fbx"}
       THEN ProcessModelDataReturn("unsupported format", <<>>, <<>>)
       ELSE IF ~imported
       THEN ProcessModelDataReturn("import", <<>>, <<>>)
       ELSE /\ pm' = [NoProcess EXCEPT !.pc = "loop", !.vertices = V, !.i = 1,
                                       !.dir0 = blocks]
            /\ pmRet' = NoProcessReturn

\* ProcessModelData, lines 49-58: one turn of the loop, with its StoreBlock; after
\* the last vertex, return blocks, nil.
ProcessModelDataStore ==
    /\ pm.pc = "loop"
    /\ UNCHANGED <<bmu, bcall, bret>>
    /\ IF pm.i > Len(pm.vertices)
       THEN /\ ProcessModelDataReturn("nil", pm.hashes, pm.hashes)
            /\ UNCHANGED <<blocks, ident, live>>
       ELSE /\ CanLock
            /\ \E r \in StoreBlockResults(blocks, pm.vertices[pm.i]) :
                 IF r.err = "nil"
                 THEN /\ blocks' = r.dir
                      /\ ident' = IF pm.vertices[pm.i] \in DOMAIN ident THEN ident
                                  ELSE (pm.vertices[pm.i] :> r.hash) @@ ident
                      /\ live' = live \cup {r.hash}
                      /\ pm' = [pm EXCEPT !.i = @ + 1, !.hashes = Append(@, r.hash)]
                      /\ pmRet' = NoProcessReturn
                 ELSE /\ blocks' = r.dir
                      /\ ProcessModelDataReturn("store", <<>>, pm.hashes)
                      /\ UNCHANGED <<ident, live>>

NextService ==
    \/ \E format \in ServiceFormats, imported \in BOOLEAN, V \in VertexLists :
         ProcessModelDataBegin(format, imported, V) /\ ServiceStep
    \/ ProcessModelDataStore /\ ServiceStep

----------------------------------------------------------------------------
(***************************************************************************)
(* core.ObjectService (pkg/core/object.go) on the objects of core.Storage  *)
(* and on blocks.Service.  One call at a time, and nobody else uses the    *)
(* storage or the block store meanwhile.                                   *)
(***************************************************************************)
MaxObjects == 2

\* The ids a caller may ask for.
ObjectIDs == 1..MaxObjects

NoObjectCall == [pc |-> "idle", id |-> 0, hashes |-> <<>>, i |-> 0,
                 dir0 |-> [h \in {} |-> <<>>]]
NoObjectReturn == [op |-> "", id |-> 0, err |-> "nil", hashes |-> <<>>,
                   fault |-> FALSE, dir0 |-> [h \in {} |-> <<>>]]

\* NewObjectService on an empty base path.
InitObjects ==
    /\ objects = [id \in {} |-> <<>>]
    /\ nobj = 0
    /\ oc = NoObjectCall
    /\ oret = NoObjectReturn

\* A call of the object service returns.  fault: a call of the operating system
\* failed on a file that was there.
ObjectReturn(op, id, err, hashes, fault, dir0) ==
    /\ oret' = [op |-> op, id |-> id, err |-> err, hashes |-> hashes,
                fault |-> fault, dir0 |-> dir0]
    /\ oc' = NoObjectCall

\* Storage.GetObject: os.ReadFile of metadata.json and json.Unmarshal.
GetObjectErr(id) ==
    IF id \notin DOMAIN objects THEN "object not found"
    ELSE IF ~objects[id].ok THEN "unmarshal"
    ELSE "nil"

\* Storage.StoreObject under s.mu: a new id, os.MkdirAll, os.WriteFile of the
\* metadata; a failed write leaves the directory with no readable metadata.
StoreObject(hashes, outcome) ==
    LET id == nobj + 1 IN
    /\ muFree
    /\ nobj' = id
    /\ CASE outcome = "nil" ->
              /\ objects' = (id :> [ok |-> TRUE, BlockHashes |-> hashes]) @@ objects
              /\ ObjectReturn("CreateObject", id, "nil", hashes, FALSE, blocks')
         [] outcome = "mkdir" ->
              /\ UNCHANGED objects
              /\ ObjectReturn("CreateObject", 0, "mkdir", <<>>, TRUE, blocks')
         [] outcome = "write" ->
              /\ objects' = (id :> [ok |-> FALSE, BlockHashes |-> <<>>]) @@ objects
              /\ ObjectReturn("CreateObject", 0, "write", <<>>, TRUE, blocks')

\* CreateObject, lines 39-43: ProcessModelData is called; its error is returned.
CreateObjectBegin(format, imported, V) ==
    /\ oc.pc = "idle"
    /\ nobj < MaxObjects
    /\ ProcessModelDataBegin(format, imported, V)
    /\ UNCHANGED <<objects, nobj>>
    /\ IF pm'.pc = "idle"
       THEN ObjectReturn("CreateObject", 0, pmRet'.err, <<>>, FALSE, blocks)
       ELSE /\ oc' = [NoObjectCall EXCEPT !.pc = "process"]
            /\ oret' = NoObjectReturn

\* CreateObject, lines 40-59: ProcessModelData goes on; when it has returned, its
\* error is returned, or the object with its block list is stored.
CreateObjectStep ==
    /\ oc.pc = "process"
    /\ ProcessModelDataStore
    /\ IF pm'.pc # "idle"
       THEN UNCHANGED objVars
       ELSE IF pmRet'.err # "nil"
       THEN /\ ObjectReturn("CreateObject", 0, pmRet'.err, <<>>, TRUE, blocks')
            /\ UNCHANGED <<objects, nobj>>
       ELSE \E outcome \in {"nil", "mkdir", "write"} :
              StoreObject(pmRet'.hashes, outcome)

\* DeleteObject, lines 70-73: s.storage.GetObject(ctx, id); its error is returned.
DeleteObjectBegin(id) ==
    /\ oc.pc = "idle"
    /\ muCanRLock
    /\ UNCHANGED <<objects, nobj, blockVars, serviceVars>>
    /\ IF GetObjectErr(id) # "nil"
       THEN ObjectReturn("DeleteObject", id, GetObjectErr(id), <<>>, FALSE, blocks)
       ELSE /\ oc' = [pc |-> "delete", id |-> id, hashes |-> objects[id].BlockHashes,
                      i |-> 1, dir0 |-> blocks]
            /\ oret' = NoObjectReturn

\* DeleteObject, lines 76-83: one turn of the loop, DeleteBlock of the next hash
\* with its os.Remove, whose error is returned; after the last hash, return
\* s.storage.DeleteObject(ctx, id) with its os.RemoveAll.
DeleteObjectStep ==
    /\ oc.pc = "delete"
    /\ UNCHANGED <<nobj, bmu, bcall, bret, ident, serviceVars>>
    /\ IF oc.i > Len(oc.hashes)
       THEN /\ muFree
            /\ UNCHANGED <<blocks, live>>
            /\ \/ /\ objects' = [id \in DOMAIN objects \ {oc.id} |-> objects[id]]
                  /\ ObjectReturn("DeleteObject", oc.id, "nil", oc.hashes, FALSE,
                                  oc.dir0)
               \/ /\ UNCHANGED objects
                  /\ ObjectReturn("DeleteObject", oc.id, "removeall", oc.hashes, TRUE,
                                  oc.dir0)
       ELSE /\ CanLock
            /\ UNCHANGED objects
            /\ IF oc.hashes[oc.i] \notin DOMAIN blocks
               THEN /\ UNCHANGED <<blocks, live>>
                    /\ ObjectReturn("DeleteObject", oc.id, "remove", oc.hashes, FALSE,
                                    oc.dir0)
               ELSE \/ /\ blocks' = [h \in DOMAIN blocks \ {oc.hashes[oc.i]} |->
                                        blocks[h]]
                       /\ live' = live \ {oc.hashes[oc.i]}
                       /\ oc' = [oc EXCEPT !.i = @ + 1]
                       /\ oret' = NoObjectReturn
                    \/ /\ UNCHANGED <<blocks, live>>
                       /\ ObjectReturn("DeleteObject", oc.id, "remove", oc.hashes, TRUE,
                                       oc.dir0)

NextObjects ==
    \/ \E format \in ServiceFormats, imported \in BOOLEAN, V \in VertexLists :
         CreateObjectBegin(format, imported, V) /\ ObjectStep
    \/ CreateObjectStep /\ ObjectStep
    \/ \E id \in ObjectIDs : DeleteObjectBegin(id) /\ ObjectStep
    \/ DeleteObjectStep /\ ObjectStep

----------------------------------------------------------------------------
(***************************************************************************)
(* DeleteModel step by step, beside StreamModel.  DeleteModel holds        *)
(* Storage.mu from its first line to its return; os.RemoveAll unlinks the  *)
(* files of the directory one after the other, in the order the directory  *)
(* lists them, and then the directory.  StreamModel holds the lock only    *)
(* for its lookup and reads the chunk files without it.                    *)
(***************************************************************************)
NoDelete == [pc |-> "idle", id |-> 0, was |-> ""]

InitDelete == dm = NoDelete

\* An unlink that empties the file and leaves it in the directory.
RemoveFileTruncate(dir, j) == [dir EXCEPT ![j] = <<>>]

\* os.RemoveAll: unlink of one file; the file leaves the directory whole.
RemoveFile(dir, j) == [i \in DOMAIN dir \ {j} |-> dir[i]]

\* DeleteModel, lines 167-177: the lock, the lookup, delete(s.metadata, modelID).
DeleteModelLock(id) ==
    /\ dm.pc = "idle"
    /\ muFree
    /\ UNCHANGED <<disk, nstore, st, sm, stored, deleted>>
    /\ IF id \notin DOMAIN metadata
       THEN /\ ret' = [NoReturn EXCEPT !.op = "DeleteModel", !.id = id,
                                       !.err = "notfound", !.was = Was(id)]
            /\ UNCHANGED <<metadata, gone, dm>>
       ELSE /\ metadata' = CatalogDelete(metadata, id)
            /\ gone' = gone \cup {id}
            /\ dm' = [pc |-> "remove", id |-> id, was |-> Was(id)]
            /\ ret' = NoReturn

\* DeleteModel, lines 180-181: os.RemoveAll unlinks one more file.
DeleteModelUnlink ==
    /\ dm.pc = "remove"
    /\ dm.id \in DOMAIN disk
    /\ \E j \in DOMAIN disk[dm.id] :
         disk' = [disk EXCEPT ![dm.id] = RemoveFile(disk[dm.id], j)]
    /\ ret' = NoReturn
    /\ UNCHANGED <<metadata, nstore, st, sm, stored, gone, deleted, dm>>

\* DeleteModel, line 181: os.RemoveAll returns, with the directory removed or
\* with an error and what is left of the directory; the lock is released.
DeleteModelReturn(ok) ==
    /\ dm.pc = "remove"
    /\ IF ok
       THEN /\ dm.id \in DOMAIN disk => disk[dm.id] = EmptyDir
            /\ disk' = [j \in DOMAIN disk \ {dm.id} |-> disk[j]]
            /\ deleted' = deleted \cup {dm.id}
       ELSE /\ dm.id \in DOMAIN disk
            /\ Cardinality(Orphans \ {dm.id}) < MaxOrphans
            /\ UNCHANGED <<disk, deleted>>
    /\ ret' = [NoReturn EXCEPT !.op = "DeleteModel", !.id = dm.id,
                               !.err = DeleteResult(IF ok THEN "nil" ELSE "err"),
                               !.was = dm.was]
    /\ dm' = NoDelete
    /\ UNCHANGED <<metadata, nstore, st, sm, stored, gone>>

\* The models stored beside the stream and the deletion.
MaxRacedModels == 1

\* The calls that take Storage.mu wait while DeleteModel holds it.
NextStreamDelete ==
    \/ /\ dm.pc = "idle"
       /\ nstore < MaxRacedModels
       /\ \E name \in Names, format \in Formats, S \in Streams :
            StoreModelBegin(name, format, S)
       /\ StorageStep
    \/ SplitStep /\ StorageStep
    \/ \E k \in Streamers, id \in AskedIDs :
         dm.pc = "idle" /\ StreamModelBegin(k, id) /\ StorageStep
    \/ \E k \in Streamers : StreamStep(k) /\ StorageStep
    \/ \E id \in AskedIDs : DeleteModelLock(id) /\ DeleteStep
    \/ DeleteModelUnlink /\ DeleteStep
    \/ \E ok \in BOOLEAN : DeleteModelReturn(ok) /\ DeleteStep

----------------------------------------------------------------------------
(***************************************************************************)
(* core.Organizer (pkg/core/organizer.go).  Each call holds Organizer.mu   *)
(* from its first line to its return and is one step.                      *)
(***************************************************************************)
MaxCollections == 3
MaxMembers == 1

CollectionNames == {"a", "b"}
MemberIDs == {"o1"}
\* The ids a caller may ask for: the zero value of a string and one other.
CollectionIDs == {"", "c1"}

NoOrganizerReturn == [op |-> "", err |-> "nil", ptr |-> 0, id |-> ""]

\* NewOrganizer: an empty map.
InitOrganizer ==
    /\ collections = [k \in {} |-> 0]
    /\ heap = <<>>
    /\ cret = NoOrganizerReturn

\* CreateCollection, lines 94-106: a Collection with Name, Objects and Metadata
\* set and ID left at its zero value; it is stored under collection.ID.
CreateCollection(name) ==
    LET collection == [ID |-> "", Name |-> name, Objects |-> <<>>]
        ptr == Len(heap) + 1
    IN /\ Len(heap) < MaxCollections
       /\ heap' = Append(heap, collection)
       /\ collections' = (collection.ID :> ptr) @@ collections
       /\ cret' = [op |-> "CreateCollection", err |-> "nil", ptr |-> ptr,
                   id |-> collection.ID]

\* AddToCollection, lines 109-120.
AddToCollection(collectionID, objectID) ==
    IF collectionID \notin DOMAIN collections
    THEN /\ cret' = [op |-> "AddToCollection", err |-> "collection not found",
                     ptr |-> 0, id |-> collectionID]
         /\ UNCHANGED <<collections, heap>>
    ELSE LET ptr == collections[collectionID] IN
         /\ Len(heap[ptr].Objects) < MaxMembers
         /\ heap' = [heap EXCEPT ![ptr].Objects = Append(@, objectID)]
         /\ cret' = [op |-> "AddToCollection", err |-> "nil", ptr |-> ptr,
                     id |-> collectionID]
         /\ UNCHANGED collections

\* GetCollection, lines 123-133.
GetCollection(id) ==
    /\ cret' = IF id \in DOMAIN collections
               THEN [op |-> "GetCollection", err |-> "nil",
                     ptr |-> collections[id], id |-> id]
               ELSE [op |-> "GetCollection", err |-> "collection not found",
                     ptr |-> 0, id |-> id]
    /\ UNCHANGED <<collections, heap>>

NextOrganizer ==
    \/ \E name \in CollectionNames : CreateCollection(name) /\ OrganizerStep
    \/ \E id \in CollectionIDs, o \in MemberIDs :
         AddToCollection(id, o) /\ OrganizerStep
    \/ \E id \in CollectionIDs : GetCollection(id) /\ OrganizerStep

NextStorage ==
    \/ /\ nstore < MaxModels
       /\ \E name \in Names, format \in Formats, S \in Streams :
            StoreModelBegin(name, format, S)
       /\ StorageStep
    \/ SplitStep /\ StorageStep
    \/ \E id \in AskedIDs : DeleteModel(id) /\ StorageStep
    \/ \E k \in Streamers, id \in AskedIDs : StreamModelBegin(k, id) /\ StorageStep
    \/ \E k \in Streamers : StreamStep(k) /\ StorageStep

----------------------------------------------------------------------------
(***************************************************************************)
(* p2p.Network (pkg/p2p/network.go).  Durations are in seconds.  One       *)
(* Network is constructed; Start is called at most once, on the Created    *)
(* network, and Stop at most once, before Start or after Start returned.   *)
(***************************************************************************)
\* n.host.ID(), and the identities of the other peers.
Self == "self"
RemotePeers == {"p1", "p2"}

\* The entries of cfg.BootstrapPeers: a string that is no multiaddr, a multiaddr
\* without a /p2p/ identity, and the p2p addresses of the remote peers.
Addrs == {"bad", "noid"} \cup RemotePeers
BootstrapLists(max) == UNION {[1..n -> Addrs] : n \in 0..max}
\* The peers that forward messages of the topic to this node.
Forwarders == {"p1"}

\* multiaddr.NewMultiaddr(addr) returns no error.
NewMultiaddrOK(addr) == addr # "bad"
\* peer.AddrInfoFromP2pAddr(maddr) returns no error.
AddrInfoFromP2pAddrOK(addr) == addr \in RemotePeers

\* backoff := time.Second; maxBackoff := time.Minute
InitialBackoff == 1
maxBackoff == 60

Components == {"host", "dht", "pubsub", "topic", "subscription", "mdns"}
\* The order of the closes in Stop.
StopOrder == <<"subscription", "topic", "dht", "host">>

NoBackoff == [pc |-> "idle", peer |-> "", backoff |-> 0, attempts |-> 0, waits |-> <<>>]
NoStart == [pc |-> "idle", ret |-> ""]
\* No HandlePeerFound has returned.
NoFound == [peer |-> "", err |-> "nil", attempts |-> 0, waits |-> <<>>]
NoStop == [pc |-> "idle", ret |-> "", log |-> <<>>, was |-> [c \in Components |-> "nil"]]

\* NewNetwork: every field but cfg and peers is nil.
InitNetwork(lists) ==
    /\ cfgBoot \in lists
    /\ comp = [c \in Components |-> "nil"]
    /\ peers = {}
    /\ succeeded = {}
    /\ found = NoFound
    /\ readErrs = 0
    /\ nctxDone = FALSE
    /\ start = NoStart
    /\ bootIdx = 1
    /\ bo = NoBackoff
    /\ boRet = <<>>
    /\ loop = "none"
    /\ subq = <<>>
    /\ nmsg = 0
    /\ rejected = <<>>
    /\ pulled = <<>>
    /\ dispatched = <<>>
    /\ returned = {}
    /\ stop = NoStop

\* Start returns: nil, or the error of the step that failed.
StartReturn(err) == start' = [pc |-> "done", ret |-> err]

\* Start: h, err := n.createHost(); n.host = h
StartCreateHost(ok) ==
    /\ start.pc = "idle"
    /\ stop.pc = "idle"
    /\ IF ok
       THEN /\ comp' = [comp EXCEPT !["host"] = "open"]
            /\ start' = [start EXCEPT !.pc = "dht"]
       ELSE /\ StartReturn("failed to create host")
            /\ UNCHANGED comp
    /\ UNCHANGED <<cfgBoot, readErrs, found, returned, succeeded, peers, nctxDone, bootIdx, bo, boRet,
                   loop, subq,
                   nmsg,
                   rejected, pulled, dispatched, stop>>

\* Start: n.initDHT(ctx).  dht.New fails and n.dht stays nil, or n.dht.Bootstrap
\* fails on the DHT that was created, or both succeed.
StartInitDHT(outcome) ==
    /\ start.pc = "dht"
    /\ CASE outcome = "ok" ->
              /\ comp' = [comp EXCEPT !["dht"] = "open"]
              /\ start' = [start EXCEPT !.pc = "pubsub"]
         [] outcome = "new" ->
              /\ StartReturn("failed to initialize DHT")
              /\ UNCHANGED comp
         [] outcome = "bootstrap" ->
              /\ comp' = [comp EXCEPT !["dht"] = "open"]
              /\ StartReturn("failed to initialize DHT")
    /\ UNCHANGED <<cfgBoot, readErrs, found, returned, succeeded, peers, nctxDone, bootIdx, bo, boRet,
                   loop, subq,
                   nmsg,
                   rejected, pulled, dispatched, stop>>

\* Start: n.initPubSub(ctx).  NewGossipSub, Join and Subscribe in turn; the first
\* that fails ends the step and what was created before it stays.
StartInitPubSub(outcome) ==
    /\ start.pc = "pubsub"
    /\ CASE outcome = "ok" ->
              /\ comp' = [comp EXCEPT !["pubsub"] = "open", !["topic"] = "open",
                                      !["subscription"] = "open"]
              /\ start' = [start EXCEPT !.pc = "mdns"]
         [] outcome = "gossipsub" ->
              /\ StartReturn("failed to initialize PubSub")
              /\ UNCHANGED comp
         [] outcome = "join" ->
              /\ comp' = [comp EXCEPT !["pubsub"] = "open"]
              /\ StartReturn("failed to initialize PubSub")
         [] outcome = "subscribe" ->
              /\ comp' = [comp EXCEPT !["pubsub"] = "open", !["topic"] = "open"]
              /\ StartReturn("failed to initialize PubSub")
    /\ UNCHANGED <<cfgBoot, readErrs, found, returned, succeeded, peers, nctxDone, bootIdx, bo, boRet,
                   loop, subq,
                   nmsg,
                   rejected, pulled, dispatched, stop>>

\* Start: n.initMDNS().  service.Start() fails or the discovery service runs.
StartInitMDNS(ok) ==
    /\ start.pc = "mdns"
    /\ IF ok
       THEN /\ comp' = [comp EXCEPT !["mdns"] = "open"]
            /\ start' = [start EXCEPT !.pc = "bootstrap"]
       ELSE /\ StartReturn("failed to initialize mDNS")
            /\ UNCHANGED comp
    /\ UNCHANGED <<cfgBoot, readErrs, found, returned, succeeded, peers, nctxDone, bootIdx, bo, boRet,
                   loop, subq,
                   nmsg,
                   rejected, pulled, dispatched, stop>>

\* An entry that ends the loop when it fails.
NextEntryOrReturn(err) == IF err = "nil" THEN bootIdx + 1 ELSE Len(cfgBoot) + 1

\* connectToBootstrapPeers: `continue` after an entry, whatever its error; the
\* index of the entry the range loop goes on with.
NextEntry(err) == bootIdx + 1

\* connectToBootstrapPeers: one turn of the range loop.  An entry that does not
\* parse is skipped; for the others connectToPeerWithBackoff is entered.
BootstrapEntry ==
    /\ start.pc = "bootstrap"
    /\ bo.pc = "idle"
    /\ bootIdx <= Len(cfgBoot)
    /\ IF NewMultiaddrOK(cfgBoot[bootIdx]) /\ AddrInfoFromP2pAddrOK(cfgBoot[bootIdx])
       THEN /\ bo' = [pc |-> "select", peer |-> cfgBoot[bootIdx],
                      backoff |-> InitialBackoff, attempts |-> 0, waits |-> <<>>]
            /\ UNCHANGED bootIdx
       ELSE /\ bootIdx' = NextEntry("parse")
            /\ UNCHANGED bo
    /\ UNCHANGED <<cfgBoot, readErrs, found, returned, succeeded, comp, peers, nctxDone, start, boRet,
                   loop, subq,
                   nmsg,
                   rejected, pulled, dispatched, stop>>

\* connectToPeerWithBackoff returns; connectToBootstrapPeers drops the error and
\* goes on with the next entry.
BackoffReturn(err, attempts) ==
    /\ boRet' = Append(boRet, [peer |-> bo.peer, err |-> err, attempts |-> attempts,
                               waits |-> bo.waits, backoff |-> bo.backoff,
                               cancelled |-> nctxDone])
    /\ bo' = NoBackoff
    /\ bootIdx' = NextEntry(err)

\* connectToPeerWithBackoff: the select.  ctx.Done() is taken when it is ready,
\* the default branch otherwise.
BackoffSelect ==
    /\ bo.pc = "select"
    /\ IF nctxDone
       THEN BackoffReturn("context canceled", bo.attempts)
       ELSE /\ bo' = [bo EXCEPT !.pc = "connect"]
            /\ UNCHANGED <<boRet, bootIdx>>
    /\ UNCHANGED <<cfgBoot, readErrs, found, returned, succeeded, comp, peers, nctxDone, start, loop,
                   subq, nmsg,
                   rejected,
                   pulled, dispatched, stop>>

\* backoff > maxBackoff
BackoffExhaustedLate(backoff) == backoff > 2 * maxBackoff
BackoffExhausted(backoff) == backoff > maxBackoff

\* n.mu.Lock() returns: no reader holds the read lock. (A writer holds the lock
\* for the one assignment of line 181.)
nmuCanLock == nmuReaders = {}

\* connectToPeer: host.Connect under ConnectionTimeout; on success the peer is
\* put in n.peers, under the write lock.
connectToPeerInsertFirst(p, ok) ==
    /\ ok => nmuCanLock
    /\ peers' = peers \cup {p}
    /\ succeeded' = IF ok THEN succeeded \cup {p} ELSE succeeded

connectToPeer(p, ok) ==
    /\ ok => nmuCanLock
    /\ peers' = IF ok THEN peers \cup {p} ELSE peers
    /\ succeeded' = IF ok THEN succeeded \cup {p} ELSE succeeded

\* connectToPeerWithBackoff: the default branch up to time.Sleep.
BackoffConnect(ok) ==
    /\ bo.pc = "connect"
    /\ connectToPeer(bo.peer, ok)
    /\ IF ok
       THEN BackoffReturn("nil", bo.attempts + 1)
       ELSE IF BackoffExhausted(bo.backoff)
            THEN BackoffReturn("max backoff reached", bo.attempts + 1)
            ELSE /\ bo' = [bo EXCEPT !.pc = "sleep", !.attempts = @ + 1,
                                     !.waits = Append(@, bo.backoff)]
                 /\ UNCHANGED <<boRet, bootIdx>>
    /\ UNCHANGED <<cfgBoot, readErrs, found, returned, comp, nctxDone, start, loop, subq, nmsg, rejected,
                   pulled, dispatched, stop>>

\* A delay that grows by one second.
NextBackoffLinear(backoff) == backoff + 1

\* backoff *= 2
NextBackoff(backoff) == backoff * 2

\* connectToPeerWithBackoff: time.Sleep(backoff) returns; backoff *= 2
BackoffWake ==
    /\ bo.pc = "sleep"
    /\ bo' = [bo EXCEPT !.pc = "select", !.backoff = NextBackoff(@)]
    /\ UNCHANGED <<cfgBoot, readErrs, found, returned, succeeded, comp, peers, nctxDone, start,
                   bootIdx, boRet,
                   loop, subq,
                   nmsg, rejected, pulled, dispatched, stop>>

\* A range loop that ends with the first call that returns.
BootstrapPeersDoneEarly == boRet # <<>> \/ cfgBoot = <<>>

\* connectToBootstrapPeers: the range over cfg.BootstrapPeers is at its end.
BootstrapPeersDone == bootIdx > Len(cfgBoot)

\* Start: connectToBootstrapPeers returns nil; go n.handleMessages(ctx); return nil
StartLaunch ==
    /\ start.pc = "bootstrap"
    /\ bo.pc = "idle"
    /\ BootstrapPeersDone
    /\ loop' = "running"
    /\ StartReturn("nil")
    /\ UNCHANGED <<cfgBoot, readErrs, found, returned, succeeded, comp, peers, nctxDone, bootIdx, bo,
                   boRet, subq,
                   nmsg,
                   rejected, pulled, dispatched, stop>>

\* The caller cancels the context it gave to Start.
CancelContext ==
    /\ ~nctxDone
    /\ nctxDone' = TRUE
    /\ UNCHANGED <<cfgBoot, readErrs, found, returned, succeeded, comp, peers, start, bootIdx, bo,
                   boRet, loop,
                   subq, nmsg,
                   rejected, pulled, dispatched, stop>>

\* HandlePeerFound: the discovery service reports a peer; connectToPeer with a
\* background context, its error dropped.
HandlePeerFound(pi, ok) ==
    /\ comp["mdns"] = "open"
    /\ comp["host"] = "open"
    /\ connectToPeer(pi, ok)
    /\ found' = [peer |-> pi, err |-> IF ok THEN "nil" ELSE "err", attempts |-> 1,
                 waits |-> <<>>]
    /\ UNCHANGED <<cfgBoot, readErrs, returned, comp, nctxDone, start, bootIdx, bo, boRet,
                   loop, subq,
                   nmsg, rejected, pulled, dispatched, stop>>

\* ConnectToPeer, lines 312-315: connectToPeer with the caller's context.  A host
\* that was closed connects to nobody.
ConnectToPeer(p, ok) ==
    /\ comp["host"] # "nil"
    /\ ok => comp["host"] = "open"
    /\ connectToPeer(p, ok)
    /\ UNCHANGED <<cfgBoot, readErrs, found, returned, comp, nctxDone, start, bootIdx, bo, boRet,
                   loop, subq,
                   nmsg, rejected, pulled, dispatched, stop>>

\* GetPeers, lines 233-242: the keys of n.peers in the order of the range over the
\* map; the slices it may return when it gets the read lock.
GetPeers == Orders(peers)

\* A pubsub message: its author (From) and the peer that forwarded it to this
\* node (ReceivedFrom), which is the node itself for what it published.
Message(from, receivedFrom) == [from |-> from, receivedFrom |-> receivedFrom]

\* Broadcast: n.topic.Publish.  The node's own subscription gets the message, with
\* the node as author and as forwarder.
Broadcast ==
    /\ start.ret = "nil"
    /\ comp["topic"] = "open"
    /\ comp["subscription"] = "open"
    /\ nmsg < MaxMsgs
    /\ nmsg' = nmsg + 1
    /\ subq' = Append(subq, Message(Self, Self))
    /\ UNCHANGED <<cfgBoot, readErrs, found, returned, succeeded, comp, peers, nctxDone, start,
                   bootIdx, bo,
                   boRet, loop,
                   rejected, pulled, dispatched, stop>>

\* The pubsub router created by pubsub.NewGossipSub drops a message that names this
\* node as its author and was forwarded by another peer; the others go to the
\* subscription.
PubsubAccepts(m) == ~(m.from = Self /\ m.receivedFrom # Self)

\* A remote peer forwards a message of the topic to this node.
PubsubReceive(from, via) ==
    /\ start.ret = "nil"
    /\ comp["host"] = "open"
    /\ comp["subscription"] = "open"
    /\ nmsg < MaxMsgs
    /\ nmsg' = nmsg + 1
    /\ IF PubsubAccepts(Message(from, via))
       THEN /\ subq' = Append(subq, Message(from, via))
            /\ UNCHANGED rejected
       ELSE /\ rejected' = Append(rejected, Message(from, via))
            /\ UNCHANGED subq
    /\ UNCHANGED <<cfgBoot, readErrs, found, returned, succeeded, comp, peers, nctxDone, start,
                   bootIdx, bo,
                   boRet, loop,
                   pulled, dispatched, stop>>

\* handleMessages: msg.ReceivedFrom == n.host.ID()
SkipNothing(m) == FALSE
SkipMessage(m) == m.receivedFrom = Self

\* A dispatch that leaves out a message equal to one dispatched before.
DispatchOnce(d, m) == IF \E i \in DOMAIN d : d[i] = m THEN d ELSE Append(d, m)

\* handleMessages, line 204: go n.processMessage(ctx, msg), one more call started.
Dispatch(d, m) == Append(d, m)

\* A loop that calls processMessage itself waits for it.
HandlersAwaitedCall(started, done) == started \ done

\* handleMessages: go n.processMessage(ctx, msg).  The processMessage calls the
\* loop waits for before it reads the subscription again: none, each runs in a
\* goroutine of its own.
HandlersAwaited(started, done) == {}

\* handleMessages: n.subscription.Next(ctx) returns a message; it is skipped or
\* given to a new goroutine running processMessage.
HandleMessage ==
    /\ loop = "running"
    /\ HandlersAwaited(DOMAIN dispatched, returned) = {}
    /\ subq # <<>>
    /\ subq' = Tail(subq)
    /\ pulled' = Append(pulled, Head(subq))
    /\ dispatched' = IF SkipMessage(Head(subq)) THEN dispatched
                                                 ELSE Dispatch(dispatched, Head(subq))
    /\ UNCHANGED <<cfgBoot, readErrs, found, returned, succeeded, comp, peers, nctxDone, start,
                   bootIdx, bo,
                   boRet, loop,
                   nmsg, rejected, stop>>

\* processMessage, lines 208-216: the call for dispatched[i] returns.
ProcessMessageReturn(i) ==
    /\ i \in DOMAIN dispatched \ returned
    /\ returned' = returned \cup {i}
    /\ UNCHANGED <<cfgBoot, readErrs, found, comp, peers, succeeded, nctxDone, start, bootIdx, bo,
                   boRet, loop, subq, nmsg, rejected, pulled, dispatched, stop>>

\* handleMessages: n.subscription.Next(ctx) returns the context's error and
\* ctx.Err() != nil: the loop returns.
HandleMessagesExit ==
    /\ loop = "running"
    /\ nctxDone
    /\ loop' = "exited"
    /\ UNCHANGED <<cfgBoot, readErrs, found, returned, succeeded, comp, peers, nctxDone, start,
                   bootIdx, bo,
                   boRet, subq,
                   nmsg, rejected, pulled, dispatched, stop>>

\* A loop that returns on every error of a read.
LoopReturnsOnError(cancelled) == TRUE

\* handleMessages, lines 192-194: if ctx.Err() != nil { return }
LoopReturns(cancelled) == cancelled

\* handleMessages: n.subscription.Next(ctx) returns the error of a subscription
\* that was cancelled.  The loop returns when the context is cancelled too, and
\* reads again otherwise.
HandleMessagesError ==
    /\ loop = "running"
    /\ comp["subscription"] = "closed"
    /\ IF LoopReturns(nctxDone)
       THEN loop' = "exited" /\ UNCHANGED readErrs
       ELSE /\ readErrs < MaxReadErrs
            /\ readErrs' = readErrs + 1
            /\ UNCHANGED loop
    /\ UNCHANGED <<cfgBoot, found, returned, succeeded, comp, peers, nctxDone, start,
                   bootIdx, bo, boRet, subq, nmsg, rejected, pulled, dispatched, stop>>

\* Stop closes component c if the field is not nil, and notes the call.
StopClose(c, closed) ==
    IF comp[c] = "nil"
    THEN UNCHANGED comp /\ stop' = [stop EXCEPT !.pc = c]
    ELSE /\ comp' = [comp EXCEPT ![c] = IF closed THEN "closed" ELSE @]
         /\ stop' = [stop EXCEPT !.pc = c, !.log = Append(@, c)]

\* Stop: n.subscription.Cancel()
StopSubscription ==
    /\ stop.pc = "idle"
    /\ start.pc \in {"idle", "done"}
    /\ IF comp["subscription"] = "nil"
       THEN /\ stop' = [stop EXCEPT !.pc = "subscription", !.was = comp]
            /\ UNCHANGED comp
       ELSE /\ comp' = [comp EXCEPT !["subscription"] = "closed"]
            /\ stop' = [stop EXCEPT !.pc = "subscription", !.was = comp,
                                    !.log = Append(@, "subscription")]
    /\ UNCHANGED <<cfgBoot, readErrs, found, returned, succeeded, peers, nctxDone, start, bootIdx, bo,
                   boRet,
                   loop, subq,
                   nmsg, rejected, pulled, dispatched>>

\* Stop: n.topic.Close(), its error dropped.
StopTopic(ok) ==
    /\ stop.pc = "subscription"
    /\ StopClose("topic", ok)
    /\ UNCHANGED <<cfgBoot, readErrs, found, returned, succeeded, peers, nctxDone, start, bootIdx, bo,
                   boRet,
                   loop, subq,
                   nmsg, rejected, pulled, dispatched>>

\* Stop: n.dht.Close(); its error ends Stop.
StopDHT(ok) ==
    /\ stop.pc = "topic"
    /\ IF comp["dht"] = "nil" \/ ok
       THEN StopClose("dht", TRUE)
       ELSE /\ stop' = [stop EXCEPT !.pc = "done", !.ret = "dht",
                                    !.log = Append(@, "dht")]
            /\ UNCHANGED comp
    /\ UNCHANGED <<cfgBoot, readErrs, found, returned, succeeded, peers, nctxDone, start, bootIdx, bo,
                   boRet,
                   loop, subq,
                   nmsg, rejected, pulled, dispatched>>

\* Stop: return n.host.Close(), or nil when there is no host.
StopHost(ok) ==
    /\ stop.pc = "dht"
    /\ IF comp["host"] = "nil"
       THEN /\ stop' = [stop EXCEPT !.pc = "done", !.ret = "nil"]
            /\ UNCHANGED comp
       ELSE /\ comp' = [comp EXCEPT !["host"] = IF ok THEN "closed" ELSE @]
            /\ stop' = [stop EXCEPT !.pc = "done", !.ret = IF ok THEN "nil" ELSE "host",
                                    !.log = Append(@, "host")]
    /\ UNCHANGED <<cfgBoot, readErrs, found, returned, succeeded, peers, nctxDone, start, bootIdx, bo,
                   boRet,
                   loop, subq,
                   nmsg, rejected, pulled, dispatched>>

\* Start and the cancellation of its context.
NextBoot ==
    \/ \E ok \in BOOLEAN : StartCreateHost(ok) /\ NetStep
    \/ \E outcome \in {"ok", "new", "bootstrap"} : StartInitDHT(outcome) /\ NetStep
    \/ \E outcome \in {"ok", "gossipsub", "join", "subscribe"} :
         StartInitPubSub(outcome) /\ NetStep
    \/ \E ok \in BOOLEAN : StartInitMDNS(ok) /\ NetStep
    \/ BootstrapEntry /\ NetStep
    \/ BackoffSelect /\ NetStep
    \/ \E ok \in BOOLEAN : BackoffConnect(ok) /\ NetStep
    \/ BackoffWake /\ NetStep
    \/ StartLaunch /\ NetStep
    \/ CancelContext /\ NetStep

\* Start together with the other callers of connectToPeer: the discovery callback
\* and ConnectToPeer.
NextStart ==
    \/ NextBoot
    \/ \E pi \in RemotePeers, ok \in BOOLEAN : HandlePeerFound(pi, ok) /\ NetStep
    \/ \E p \in RemotePeers, ok \in BOOLEAN : ConnectToPeer(p, ok) /\ NetStep

\* Start, the messages and Stop.
NextNetwork ==
    \/ NextBoot
    \/ Broadcast /\ NetStep
    \/ \E from \in {Self} \cup RemotePeers, via \in Forwarders :
         PubsubReceive(from, via) /\ NetStep
    \/ HandleMessage /\ NetStep
    \/ \E i \in 1..MaxMsgs : ProcessMessageReturn(i) /\ NetStep
    \/ HandleMessagesExit /\ NetStep
    \/ HandleMessagesError /\ NetStep
    \/ StopSubscription /\ NetStep
    \/ \E ok \in BOOLEAN : StopTopic(ok) /\ NetStep
    \/ \E ok \in BOOLEAN : StopDHT(ok) /\ NetStep
    \/ \E ok \in BOOLEAN : StopHost(ok) /\ NetStep

----------------------------------------------------------------------------
(***************************************************************************)
(* The specifications.                                                     *)
(***************************************************************************)
----------------------------------------------------------------------------
(***************************************************************************)
(* core.Node (pkg/core/node.go).  Node.Start and Node.Stop are each called *)
(* at most once; the network of the node is started and stopped through    *)
(* the node only.                                                          *)
(***************************************************************************)
\* NewNode: no call was made, no background task runs.
InitNode ==
    node = [start |-> "idle", startRet |-> "", tasks |-> <<>>,
            stop |-> "idle", stopRet |-> ""]

\* Node.Start is called: n.network.Start(ctx) begins.
NodeStartCall ==
    /\ node.start = "idle"
    /\ node.stop = "idle"
    /\ node' = [node EXCEPT !.start = "network"]

\* A Start that goes on after an error of the network.
NetworkFailedNever(err) == FALSE

\* Node.Start, line 36: err != nil
NetworkFailed(err) == err # "nil"

\* Node.Start, lines 36-41: n.network.Start returned; its error is returned, or
\* go n.discovery(ctx).
NodeStartNetworkReturned ==
    /\ node.start = "network"
    /\ start.pc = "done"
    /\ IF NetworkFailed(start.ret)
       THEN node' = [node EXCEPT !.start = "done", !.startRet = start.ret]
       ELSE node' = [node EXCEPT !.start = "maintenance",
                                 !.tasks = Append(@, "discovery")]

\* Node.Start, lines 44-46: go n.maintenance(ctx); return nil
NodeStartReturn ==
    /\ node.start = "maintenance"
    /\ node' = [node EXCEPT !.start = "done", !.startRet = "nil",
                            !.tasks = Append(@, "maintenance")]

\* Node.Stop is called, before Node.Start or after it returned: n.network.Stop()
\* begins.
NodeStopCall ==
    /\ node.stop = "idle"
    /\ node.start \in {"idle", "done"}
    /\ node' = [node EXCEPT !.stop = "network"]

\* Node.Stop, line 50: return n.network.Stop()
NodeStopReturn ==
    /\ node.stop = "network"
    /\ stop.pc = "done"
    /\ node' = [node EXCEPT !.stop = "done", !.stopRet = stop.ret]

\* The steps of Network.Stop.
NextStop ==
    \/ StopSubscription /\ NetStep
    \/ \E ok \in BOOLEAN : StopTopic(ok) /\ NetStep
    \/ \E ok \in BOOLEAN : StopDHT(ok) /\ NetStep
    \/ \E ok \in BOOLEAN : StopHost(ok) /\ NetStep

NextNode ==
    \/ NodeStartCall /\ NodeStep
    \/ node.start = "network" /\ NextBoot
    \/ NodeStartNetworkReturned /\ NodeStep
    \/ NodeStartReturn /\ NodeStep
    \/ NodeStopCall /\ NodeStep
    \/ node.stop = "network" /\ NextStop
    \/ NodeStopReturn /\ NodeStep

----------------------------------------------------------------------------
(***************************************************************************)
(* Start and Stop called again on the same Network.  Neither function      *)
(* looks at what an earlier call did: Start builds every component anew    *)
(* and overwrites the fields, Stop closes whatever the fields hold.  The   *)
(* calls are made one after the other.                                     *)
(***************************************************************************)
MaxAgain == 1

InitAgain == again = [start |-> 0, stop |-> 0]

\* A further call of Start, after an earlier Start returned and with no Stop
\* under way: h, err := n.createHost(); n.host = h
StartAgain(ok) ==
    /\ start.pc = "done"
    /\ stop.pc \in {"idle", "done"}
    /\ bo.pc = "idle"
    /\ again.start < MaxAgain
    /\ again' = [again EXCEPT !.start = @ + 1]
    /\ bootIdx' = 1
    /\ IF ok
       THEN /\ comp' = [comp EXCEPT !["host"] = "open"]
            /\ start' = [pc |-> "dht", ret |-> ""]
       ELSE /\ StartReturn("failed to create host")
            /\ UNCHANGED comp
    /\ UNCHANGED <<cfgBoot, readErrs, found, returned, succeeded, peers, nctxDone, bo, boRet,
                   loop, subq, nmsg, rejected, pulled, dispatched, stop>>

\* A further call of Stop, after an earlier Stop returned and with no Start
\* under way: n.subscription.Cancel() if the field is not nil.
StopAgain ==
    /\ stop.pc = "done"
    /\ start.pc \in {"idle", "done"}
    /\ again.stop < MaxAgain
    /\ again' = [again EXCEPT !.stop = @ + 1]
    /\ IF comp["subscription"] = "nil"
       THEN /\ stop' = [stop EXCEPT !.pc = "subscription", !.ret = "", !.was = comp]
            /\ UNCHANGED comp
       ELSE /\ comp' = [comp EXCEPT !["subscription"] = "closed"]
            /\ stop' = [stop EXCEPT !.pc = "subscription", !.ret = "", !.was = comp,
                                    !.log = Append(@, "subscription")]
    /\ UNCHANGED <<cfgBoot, readErrs, found, returned, succeeded, peers, nctxDone, start,
                   bootIdx, bo, boRet, loop, subq, nmsg, rejected, pulled, dispatched>>

NextLifecycle ==
    \/ NextBoot
    \/ NextStop
    \/ \E ok \in BOOLEAN : StartAgain(ok) /\ AgainStep
    \/ StopAgain /\ AgainStep

----------------------------------------------------------------------------
(***************************************************************************)
(* main (cmd/3ds/main.go) and the network handlers of the API              *)
(* (pkg/api/api.go).  main builds the node, whose NewNode builds the       *)
(* Network that Node.Start starts, and builds a Network of its own with    *)
(* p2p.NewNetwork; nothing calls Start on the second one.                  *)
(***************************************************************************)
MaxRequests == 2

\* main, lines 21-33: node, network and storage are built; no call yet.
InitMain == app = [pc |-> "init", network |-> "", served |-> <<>>]

\* The fields of a Network: those of the node's are the fields Start and Stop
\* work on, those of main's are as NewNetwork left them.
Fields(inst) ==
    IF inst = "node" THEN [comp |-> comp, peers |-> peers]
    ELSE [comp |-> [c \in Components |-> "nil"], peers |-> {}]

\* main, lines 39-47: node.Start returned; log.Fatal on an error, else
\* api.NewAPI(node, network, storage, cfg.APIPort) and the server is started.
MainNewAPI ==
    /\ app.pc = "init"
    /\ node.start = "done"
    /\ IF node.startRet # "nil"
       THEN app' = [app EXCEPT !.pc = "fatal"]
       ELSE app' = [app EXCEPT !.pc = "serving", !.network = "main"]

\* A request a handler has served: the Network it ran against and how it ended.
Served(handler, inst, err) == [handler |-> handler, network |-> inst, err |-> err]

\* GetNetworkStatus: api.network.GetPeers(), then api.network.GetHost().ID() and
\* .Addrs(): a method call on a nil host panics.
GetNetworkStatus ==
    /\ app.pc = "serving"
    /\ Len(app.served) < MaxRequests
    /\ LET f == Fields(app.network)
           err == IF f.comp["host"] = "nil" THEN "nil pointer dereference" ELSE "nil"
       IN app' = [app EXCEPT !.served =
                     Append(@, Served("GetNetworkStatus", app.network, err))]

\* GetPeers of the API: api.network.GetPeers(), then for each peer
\* api.network.GetHost().Peerstore().Addrs(peer).
GetPeersHandler ==
    /\ app.pc = "serving"
    /\ Len(app.served) < MaxRequests
    /\ LET f == Fields(app.network)
           err == IF f.peers # {} /\ f.comp["host"] = "nil"
                  THEN "nil pointer dereference" ELSE "nil"
       IN app' = [app EXCEPT !.served =
                     Append(@, Served("GetPeers", app.network, err))]

NextMain ==
    \/ NextNode
    \/ MainNewAPI /\ MainStep
    \/ GetNetworkStatus /\ MainStep
    \/ GetPeersHandler /\ MainStep

----------------------------------------------------------------------------
(***************************************************************************)
(* The readers of the catalog and of the peer table.  A reader holds the   *)
(* read lock from its first line to its return; what it returns is what    *)
(* ListModels, GetModel or GetPeers give in the state it holds the lock in,*)
(* which no writer changes meanwhile.                                      *)
(***************************************************************************)
LocksStep ==
    UNCHANGED <<storageVars, blockVars, netVars, serviceVars, nodeVars, lifeVars,
               appVars, objVars, restVars>>

\* ListModels, getMetadata (GetModel, GetModelMetadata), GetStatus: s.mu.RLock()
StorageRLock(c) ==
    /\ c \notin muReaders
    /\ muCanRLock
    /\ muReaders' = muReaders \cup {c}
    /\ UNCHANGED nmuReaders

\* ListModels, getMetadata, GetStatus: the return, with its s.mu.RUnlock()
StorageRUnlock(c) ==
    /\ c \in muReaders
    /\ muReaders' = muReaders \ {c}
    /\ UNCHANGED nmuReaders

\* GetPeers, line 234: n.mu.RLock(). No writer is between lines 180 and 182.
GetPeersRLock(c) ==
    /\ c \notin nmuReaders
    /\ nmuReaders' = nmuReaders \cup {c}
    /\ UNCHANGED muReaders

\* GetPeers, lines 237-241: the return, with its n.mu.RUnlock()
GetPeersReturn(c) ==
    /\ c \in nmuReaders
    /\ nmuReaders' = nmuReaders \ {c}
    /\ UNCHANGED muReaders

\* The calls on the three locks together: one StoreModel of a stream of one
\* chunk, the block calls for one payload, one peer, and the readers.
LockStreams == {Stream(1)}
LockPayloads == {Stream(1)}
LockPeers == {"p1"}

NextLocks ==
    \/ /\ nstore < MaxLockModels
       /\ \E name \in Names, format \in Formats, S \in LockStreams :
            StoreModelBegin(name, format, S)
       /\ StorageStep
    \/ SplitStep /\ StorageStep
    \/ \E id \in DOMAIN metadata : DeleteModel(id) /\ StorageStep
    \/ \E c \in Callers : StorageRLock(c) /\ LocksStep
    \/ \E c \in Callers : StorageRUnlock(c) /\ LocksStep
    \/ \E c \in Callers, P \in LockPayloads :
         BlockCall(c, "StoreBlock", P, <<>>) /\ BlocksStep
    \/ \E c \in Callers, P \in LockPayloads :
         BlockCall(c, "GetBlock", <<>>, calculateHash(P)) /\ BlocksStep
    \/ \E c \in Callers, P \in LockPayloads :
         BlockCall(c, "DeleteBlock", <<>>, calculateHash(P)) /\ BlocksStep
    \/ \E c \in Callers : StoreBlockLock(c) /\ BlocksStep
    \/ \E c \in Callers : StoreBlockStat(c) /\ BlocksStep
    \/ \E c \in Callers : StoreBlockWrite(c) /\ BlocksStep
    \/ \E c \in Callers : GetBlockLock(c) /\ BlocksStep
    \/ \E c \in Callers : GetBlockRead(c) /\ BlocksStep
    \/ \E c \in Callers : DeleteBlockLock(c) /\ BlocksStep
    \/ \E c \in Callers : DeleteBlockRemove(c) /\ BlocksStep
    \/ \E ok \in BOOLEAN : StartCreateHost(ok) /\ NetStep
    \/ \E p \in LockPeers, ok \in BOOLEAN : ConnectToPeer(p, ok) /\ NetStep
    \/ \E c \in Callers : GetPeersRLock(c) /\ LocksStep
    \/ \E c \in Callers : GetPeersReturn(c) /\ LocksStep

\* No call holds a read lock.
InitLocks == muReaders = {} /\ nmuReaders = {}

\* The node of the storage and block store checks has no bootstrap peers.
Init ==
    /\ InitStorage /\ InitBlocks /\ InitNetwork({<<>>})
    /\ InitLocks /\ InitService /\ InitNode /\ InitAgain /\ InitMain
    /\ InitObjects /\ InitDelete /\ InitOrganizer

SpecStorage == Init /\ [][NextStorage]_vars

SpecBlocks == Init /\ [][NextBlocks]_vars

\* StoreModel, StreamModel and the stepwise DeleteModel on an empty storage.
SpecStreamDelete == Init /\ [][NextStreamDelete]_vars

\* The organizer, from NewOrganizer.
SpecOrganizer == Init /\ [][NextOrganizer]_vars

\* The object service on an empty storage and an empty block store.
SpecObjects == Init /\ [][NextObjects]_vars

\* ProcessModelData on a store that nobody else calls.
SpecService == Init /\ [][NextService]_vars

\* The three locks, each with its readers and its writers.
SpecLocks == Init /\ [][NextLocks]_vars

\* The network is checked for every list of bootstrap peers.
InitNet ==
    /\ InitStorage /\ InitBlocks /\ InitNetwork(BootstrapLists(MaxBootstrapNet))
    /\ InitLocks /\ InitService /\ InitNode /\ InitAgain /\ InitMain
    /\ InitObjects /\ InitDelete /\ InitOrganizer

SpecNet == InitNet /\ [][NextNetwork]_vars

\* Start and Stop called more than once, for the short lists of bootstrap peers.
SpecLifecycle == InitNet /\ [][NextLifecycle]_vars

\* main, its node and the API, for the short lists of bootstrap peers.
SpecMain == InitNet /\ [][NextMain]_vars

\* The node and its network, for the short lists of bootstrap peers.
SpecNode == InitNet /\ [][NextNode]_vars

\* Start alone, for every list of bootstrap peers.
InitStart ==
    /\ InitStorage /\ InitBlocks /\ InitNetwork(BootstrapLists(MaxBootstrap))
    /\ InitLocks /\ InitService /\ InitNode /\ InitAgain /\ InitMain
    /\ InitObjects /\ InitDelete /\ InitOrganizer

SpecStart == InitStart /\ [][NextStart]_vars

\* connectToPeer returns within ConnectionTimeout and time.Sleep returns: a call of
\* connectToPeerWithBackoff in progress takes its next step.
FairSpecStart ==
    /\ SpecStart
    /\ WF_vars(BackoffSelect /\ NetStep)
    /\ WF_vars(\E ok \in BOOLEAN : BackoffConnect(ok) /\ NetStep)
    /\ WF_vars(BackoffWake /\ NetStep)

----------------------------------------------------------------------------
(***************************************************************************)
(* Properties of blocks.Store, checked under SpecBlocks.                   *)
(***************************************************************************)
\* C3 (as claimed): idempotent content addressing. Every successful StoreBlock(P)
\* returns the identifier the first one returned; when it returns, the store holds
\* under that identifier a file whose content is P, and no other copy of P; and a
\* StoreBlock(P) that follows a successful one, with no DeleteBlock of the block
\* between them, writes no file.
C3_IdempotentStore ==
    (bret.op = "StoreBlock" /\ bret.err = "nil") =>
        /\ bret.hash = ident[bret.data]
        /\ bret.hash \in DOMAIN blocks
        /\ blocks[bret.hash] = bret.data
        /\ \A h \in DOMAIN blocks : blocks[h] = bret.data => h = bret.hash
        /\ bret.second => ~bret.wrote

\* C14 (as claimed): the read/delete contract. A GetBlock(h) that the file system
\* lets read returns the payload P with hash(P) = h and Size = |P| when h was
\* stored with success and not removed since, and "block not found" otherwise;
\* after a DeleteBlock(h) that returned nil there is no block h.
C14_ReadDeleteContract ==
    /\ (bret.op = "GetBlock" /\ bret.err # "read") =>
         IF bret.hash \in live
         THEN /\ bret.err = "nil"
              /\ calculateHash(bret.block) = bret.hash
              /\ bret.size = Len(bret.block)
         ELSE bret.err = "notfound"
    /\ (bret.op = "DeleteBlock" /\ bret.err = "nil") => bret.hash \notin DOMAIN blocks

----------------------------------------------------------------------------
(***************************************************************************)
(* Properties of core.Storage, checked under SpecStorage.                  *)
(***************************************************************************)
CeilDiv(a, b) == (a + b - 1) \div b

RECURSIVE SumLen(_, _)
SumLen(dir, n) == IF n = 0 THEN 0 ELSE SumLen(dir, n - 1) + Len(dir[n - 1])

\* The ids of a list of metadata, and whether none comes twice.
ListIDs(l) == {l[i].ID : i \in DOMAIN l}
NoDuplicates(l) == \A i, j \in DOMAIN l : l[i].ID = l[j].ID => i = j

\* C1 (as claimed): round-trip reconstruction. Whenever StreamModel of the id of
\* a successful StoreModel(S) returns success, it has written exactly S, whatever
\* the sizes of the reads and however the reader reported the end of the stream.
C1_RoundTrip ==
    (ret.op = "StreamModel" /\ ret.err = "nil") => ret.out = stored[ret.id].input

\* C2 (as claimed): catalog consistency. The metadata a successful StoreModel
\* returns has ceil(Size / ChunkSize) chunks, every chunk file but the last has
\* ChunkSize bytes, and Size is the sum of the lengths of the chunk files.
C2_CatalogConsistency ==
    (ret.op = "StoreModel" /\ ret.err = "nil") =>
        LET n == Len(ret.meta.Chunks)
            dir == disk[ret.id]
        IN /\ n = CeilDiv(ret.meta.Size, ChunkSize)
           /\ DOMAIN dir = 0..(n - 1)
           /\ \A i \in 0..(n - 2) : Len(dir[i]) = ChunkSize
           /\ n > 0 => Len(dir[n - 1]) \in 1..ChunkSize
           /\ ret.meta.Size = SumLen(dir, n)

\* C4: deletion finality. Once DeleteModel(id) has returned success, the
\* directory of id is not on disk, GetModel(id) and GetModelMetadata(id) are
\* not-found, no list of ListModels holds id, and a StreamModel(id) begun
\* afterwards returns not-found, having written nothing.
C4_DeletionFinality ==
    /\ \A id \in deleted :
         /\ id \notin DOMAIN disk
         /\ GetModel(id).err = "notfound"
         /\ GetModelMetadata(id).err = "notfound"
         /\ \A l \in ListModels : id \notin ListIDs(l)
    /\ (ret.op = "StreamModel" /\ ret.was = "deleted") =>
         (ret.err = "notfound" /\ ret.out = <<>>)

\* C4, witness: a StreamModel of a model of several chunks, deleted with success,
\* has returned.
C4_Witness ==
    /\ ret.op = "StreamModel"
    /\ ret.was = "deleted"
    /\ ret.id \in deleted
    /\ Len(stored[ret.id].meta.Chunks) > 1

\* C5 (as claimed): StoreModel is all-or-nothing. When StoreModel fails it
\* returns no metadata, the catalog is what it was before the call, and the
\* directory of the object is not on disk; no half-stored object is catalogued.
C5_AllOrNothing ==
    /\ (ret.op = "StoreModel" /\ ret.err # "nil") =>
         /\ ret.meta = NoMeta
         /\ metadata = ret.cat0
         /\ ret.id \notin DOMAIN disk
    /\ st.pc = "split" => st.id \notin DOMAIN metadata
    /\ DOMAIN metadata \subseteq DOMAIN stored

\* C5 (amended): as C5_AllOrNothing, but the directory of the object is off the
\* disk only when the os.RemoveAll of the cleanup did not fail itself.
C5_AllOrNothingBestEffort ==
    /\ (ret.op = "StoreModel" /\ ret.err # "nil") =>
         /\ ret.meta = NoMeta
         /\ metadata = ret.cat0
         /\ ret.cleanup # "err" => ret.id \notin DOMAIN disk
    /\ st.pc = "split" => st.id \notin DOMAIN metadata
    /\ DOMAIN metadata \subseteq DOMAIN stored

\* C5, witness: a StoreModel failed after writing chunks, with another model in
\* the catalog, and its cleanup removed the directory.
C5_Witness ==
    /\ ret.op = "StoreModel"
    /\ ret.err \in {"read", "write", "cancelled"}
    /\ ret.index > 0
    /\ ret.cleanup = "nil"
    /\ ret.cat0 # EmptyCatalog

\* The catalog is exactly `ids`, each with the metadata its StoreModel returned.
CatalogIs(ids) ==
    /\ \A l \in ListModels : NoDuplicates(l) /\ ListIDs(l) = ids
                             /\ \A i \in DOMAIN l : l[i] = stored[l[i].ID].meta
    /\ \A id \in ids : GetModel(id) = [meta |-> stored[id].meta, err |-> "nil"]

\* C8 (as claimed): catalog contents. With no StoreModel in progress, ListModels
\* returns exactly one entry for each model whose StoreModel succeeded and whose
\* DeleteModel has not succeeded, and GetModel of each returns what StoreModel
\* returned.
C8_CatalogContents == muFree => CatalogIs(DOMAIN stored \ deleted)

\* C8 (amended): as C8_CatalogContents for the models whose StoreModel succeeded
\* and whose entry no DeleteModel has removed: a DeleteModel that returns the
\* error of os.RemoveAll has removed the entry all the same.
C8_CatalogContentsEntryKept == muFree => CatalogIs(DOMAIN stored \ gone)

\* C8, witness: two models were stored, one was deleted, the other has chunks;
\* no call is in progress.
C8_Witness ==
    /\ muFree
    /\ Cardinality(DOMAIN stored) = 2
    /\ Cardinality(gone) = 1
    /\ \E id \in DOMAIN metadata : Len(metadata[id].Chunks) > 1

\* The bytes of the chunks 0..i-1 of a stored model, in order.
RECURSIVE ChunkBytes(_, _)
ChunkBytes(m, i) == IF i = 0 THEN 0 ELSE ChunkBytes(m, i - 1) + m.lens[i - 1]
FirstChunks(m, i) == SubSeq(m.input, 1, ChunkBytes(m, i))
IsPrefix(a, b) == Len(a) <= Len(b) /\ a = SubSeq(b, 1, Len(a))

\* C15: StreamModel writes the chunks in ascending order, each once. While it
\* runs at index i it has written the chunks 0..i-1; a StreamModel that returns
\* from index i has written exactly the chunks 0..i-1, after a writer error
\* with what the failed Write took of chunk i, and all the chunks when it returns
\* nil; a read or write error names i and a cancellation is returned as it is.
C15_OrderedStreaming ==
    /\ \A k \in Streamers :
         sm[k].pc = "stream" => sm[k].out = FirstChunks(stored[sm[k].id], sm[k].i)
    /\ (ret.op = "StreamModel" /\ ret.was = "stored") =>
         LET m == stored[ret.id]
             n == Len(m.meta.Chunks)
         IN CASE ret.err = "nil" -> ret.out = FirstChunks(m, n) /\ ret.index = -1
              [] ret.err = "cancelled" ->
                   ret.out = FirstChunks(m, ret.at) /\ ret.index = -1
              [] ret.err = "readchunk" ->
                   ret.out = FirstChunks(m, ret.at) /\ ret.index = ret.at
              [] ret.err = "writechunk" ->
                   /\ IsPrefix(FirstChunks(m, ret.at), ret.out)
                   /\ IsPrefix(ret.out, FirstChunks(m, ret.at + 1))
                   /\ ret.out # FirstChunks(m, ret.at + 1)
                   /\ ret.index = ret.at
              [] OTHER -> FALSE

\* C15, witness: a StreamModel of a model of three chunks stopped at index 1 on a
\* writer error, after the writer took a part of chunk 1.
C15_Witness ==
    /\ ret.op = "StreamModel"
    /\ ret.err = "writechunk"
    /\ ret.at = 1
    /\ Len(stored[ret.id].meta.Chunks) = 3
    /\ Len(ret.out) > ChunkBytes(stored[ret.id], 1)

\* C13: for an id that is not in the catalog, GetModel and GetModelMetadata return
\* the not-found error and no metadata.
C13_LookupsNotFound ==
    \A id \in AskedIDs \ DOMAIN metadata :
        /\ GetModel(id) = [meta |-> NoMeta, err |-> "notfound"]
        /\ GetModelMetadata(id) = [meta |-> NoMeta, err |-> "notfound"]

\* C13: a DeleteModel or StreamModel of an id that is not in the catalog returns
\* the not-found error, has written nothing, and left catalog and disk as they were.
C13_CallsNotFound ==
    (ret'.op \in {"DeleteModel", "StreamModel"} /\ ret'.was # "stored") =>
        /\ ret'.err = "notfound"
        /\ ret'.out = <<>>
        /\ metadata' = metadata
        /\ disk' = disk

\* C13: unknown ids are rejected without effect.
C13_UnknownIdsRejected == []C13_LookupsNotFound /\ [][C13_CallsNotFound]_vars

\* C13, witness: with a model in the catalog, DeleteModel of an id it took out of
\* the catalog before has returned not-found.
C13_Witness ==
    /\ ret.op = "DeleteModel"
    /\ ret.err = "notfound"
    /\ ret.id \in gone
    /\ DOMAIN metadata # {}
    /\ DOMAIN disk # {}

----------------------------------------------------------------------------
(***************************************************************************)
(* Properties of p2p.Network: the backoff under FairSpecStart, the others  *)
(* under SpecNet.                                                          *)
(***************************************************************************)
\* Each wait is twice the one before it, hence longer.
Doubling(w) == \A i \in 1..(Len(w) - 1) : w[i + 1] = 2 * w[i] /\ w[i + 1] > w[i]

C6_Schedule ==
    /\ Doubling(bo.waits)
    /\ \A i \in DOMAIN boRet :
         /\ Doubling(boRet[i].waits)
         /\ (boRet[i].err # "nil" /\ ~boRet[i].cancelled) =>
              /\ boRet[i].err = "max backoff reached"
              /\ boRet[i].attempts = Len(boRet[i].waits) + 1
              /\ boRet[i].backoff > maxBackoff
              /\ \A j \in DOMAIN boRet[i].waits : boRet[i].waits[j] <= maxBackoff

C6_Terminates ==
    \A n \in 0..MaxBootstrap : (bo.pc # "idle" /\ Len(boRet) = n) ~> (Len(boRet) > n)

\* C6: a call of connectToPeerWithBackoff whose every attempt fails, with no
\* cancellation, waits a doubling, strictly increasing delay between attempts and
\* returns "max backoff reached" once the next delay is over the ceiling, no wait
\* being longer than the ceiling; every call returns.
C6_BackoffTermination == []C6_Schedule /\ C6_Terminates

\* A call returned "max backoff reached" after several waits, not cancelled.
C6_Witness ==
    \E i \in DOMAIN boRet :
        /\ boRet[i].err = "max backoff reached"
        /\ ~boRet[i].cancelled
        /\ Len(boRet[i].waits) > 2

NotFromSelf(m) == m.from # Self

C9_StartFailsFast ==
    (start.pc = "done" /\ start.ret # "nil" /\ stop.pc = "idle") =>
        /\ \A c \in Components : comp[c] # "open"
        /\ loop # "running"

WasCreated(c) == stop.was[c] # "nil"

\* C10: Stop closes the subscription, the topic, the DHT and the host, in this
\* order, leaving out those that were never created; on a network never started
\* it closes nothing and returns nil, and after a successful Start it returns nil.
C10_ShutdownOrder ==
    stop.pc = "done" =>
        /\ stop.log = SelectSeq(StopOrder, WasCreated)
        /\ (start.pc = "idle" => stop.log = <<>> /\ stop.ret = "nil")
        /\ (start.ret = "nil" => stop.ret = "nil")

\* C11: every slice GetPeers may return holds, once each, exactly the peers for
\* which a connection attempt succeeded (so a failed attempt adds none), and no
\* step takes a peer out of the table.
C11_PeerTable ==
    /\ \A l \in GetPeers : Elements(l) = succeeded /\ Len(l) = Cardinality(succeeded)
    /\ succeeded \subseteq peers

C11_PeersKept == [][peers \subseteq peers']_vars

C11_PeerBookkeeping == []C11_PeerTable /\ C11_PeersKept

\* Both peers are in the table: one by a bootstrap connection that succeeded after
\* a failed attempt, the other by discovery or ConnectToPeer.
C11_Witness ==
    /\ peers = RemotePeers
    /\ \E i \in DOMAIN boRet : boRet[i].err = "nil" /\ boRet[i].attempts > 1
    /\ \E p \in peers : \A i \in DOMAIN cfgBoot : cfgBoot[i] # p

\* The entries of cfg.BootstrapPeers that parse to a peer.
IsPeerAddr(addr) == NewMultiaddrOK(addr) /\ AddrInfoFromP2pAddrOK(addr)
Parseable == SelectSeq(cfgBoot, IsPeerAddr)

\* C12: the calls of connectToPeerWithBackoff are those of the parseable entries of
\* the list, in order, whatever became of the entries before; each made a
\* connection attempt unless the context was cancelled; and once the discovery
\* service runs, Start returns nil, after a call for every parseable entry.
C12_BootstrapIndependence ==
    /\ Len(boRet) <= Len(Parseable)
    /\ \A i \in DOMAIN boRet :
         /\ boRet[i].peer = Parseable[i]
         /\ ~boRet[i].cancelled => boRet[i].attempts >= 1
    /\ (start.pc = "done" /\ comp["mdns"] # "nil") =>
         (start.ret = "nil" /\ Len(boRet) = Len(Parseable))

\* Start returned nil; the first entry did not parse and the second exhausted its
\* backoff, or the first exhausted its backoff and the second was attempted.
C12_Witness ==
    /\ start.ret = "nil"
    /\ Len(cfgBoot) = 2
    /\ boRet # <<>>
    /\ boRet[1].err = "max backoff reached"
    /\ ~IsPeerAddr(cfgBoot[1]) \/ (Len(boRet) = 2 /\ boRet[2].attempts >= 1)

\* C16: while the loop runs and the subscription holds a message, the loop can
\* receive it, whichever processMessage calls have not returned.
C16_NonBlockingDispatch ==
    (loop = "running" /\ subq # <<>>) => ENABLED (HandleMessage /\ NetStep)

\* Two messages were dispatched, the second while the call for the first had not
\* returned, and no call has returned; a third message waits.
C16_Witness ==
    /\ loop = "running"
    /\ Len(dispatched) = 2
    /\ returned = {}
    /\ subq # <<>>

\* C17: while a StoreModel is in its loop (its reader may deliver nothing for as
\* long as it likes), another StoreModel can pass the lock and begin.
C17_IndependentWrites ==
    (st.pc = "split" /\ nstore < MaxModels) =>
        ENABLED (/\ \E name \in Names, format \in Formats, S \in Streams :
                       StoreModelBegin(name, format, S)
                 /\ StorageStep)

\* C19: DeleteModel is not atomic. An id whose entry DeleteModel took out of the
\* catalog is not-found from then on, whether or not the removal succeeded.
C19_EntryNotRestored ==
    \A id \in gone :
        /\ id \notin DOMAIN metadata
        /\ GetModel(id).err = "notfound"

\* C19: a DeleteModel of a catalogued id returns the error of a failed removal,
\* with the entry gone; when it returns nil the directory is off the disk; a
\* DeleteModel of an id whose entry is gone returns not-found.
C19_DeleteReturns ==
    ret'.op = "DeleteModel" =>
        /\ ret'.id \in DOMAIN metadata =>
             /\ ret'.err \in {"nil", "remove"}
             /\ ret'.id \in gone' \ DOMAIN metadata'
             /\ ret'.err = "nil" => ret'.id \notin DOMAIN disk'
             /\ ret'.id \in DOMAIN disk' => ret'.err = "remove"
        /\ ret'.id \in gone => ret'.err = "notfound"

C19_NonAtomicDelete == []C19_EntryNotRestored /\ [][C19_DeleteReturns]_vars

\* The removal of a DeleteModel failed and left the chunks on disk; a second
\* DeleteModel of the id has returned not-found.
C19_Witness ==
    /\ ret.op = "DeleteModel"
    /\ ret.err = "notfound"
    /\ ret.id \in gone \ deleted
    /\ ret.id \in DOMAIN disk
    /\ disk[ret.id] # EmptyDir

\* C20: a HandlePeerFound whose peer did not connect made the attempts of the
\* backoff of bootstrap peers: a first wait of InitialBackoff, each wait twice
\* the one before, the last attempt made once the next wait is over maxBackoff.
C20_DiscoveryBackoff ==
    (found.peer # "" /\ found.err # "nil") =>
        /\ found.attempts = Len(found.waits) + 1
        /\ found.waits # <<>>
        /\ found.waits[1] = InitialBackoff
        /\ Doubling(found.waits)
        /\ 2 * found.waits[Len(found.waits)] > maxBackoff

\* The callers inside a critical section of Store.mu: the writers between the lock
\* and the return of StoreBlock or DeleteBlock, the readers in GetBlock.
BlockWriters == {c \in Callers : bcall[c].pc \in {"stat", "write", "remove"}}
BlockReaders == {c \in Callers : bcall[c].pc = "read"}

\* C18: at most one writer is inside a critical section of the block directory,
\* and no reader with it; no reader of the catalog is inside while a StoreModel is.
C18_Exclusion ==
    /\ Cardinality(BlockWriters) <= 1
    /\ BlockWriters # {} => BlockReaders = {}
    /\ st.pc # "idle" => muReaders = {}

\* C18: the catalog, the block directory and the peer table change only while no
\* reader of theirs is inside; the catalog by the StoreModel that returns or,
\* with no StoreModel inside, by a DeleteModel; the block directory by the one
\* writer inside.
C18_WritesExcluded ==
    /\ metadata' # metadata =>
         (muReaders = {} /\ (st.pc = "idle" \/ st'.pc = "idle"))
    /\ blocks' # blocks => (BlockReaders = {} /\ Cardinality(BlockWriters) = 1)
    /\ peers' # peers => nmuReaders = {}

C18_ReadWriteExclusion == []C18_Exclusion /\ [][C18_WritesExcluded]_vars

\* Two readers of the catalog are inside together and two of the peer table, each
\* with something to read, while a writer of the block directory is inside.
C18_Witness ==
    /\ muReaders = Callers
    /\ nmuReaders = Callers
    /\ metadata # EmptyCatalog
    /\ peers # {}
    /\ BlockWriters # {}

\* C21: once the context is cancelled, a call of connectToPeerWithBackoff begins no
\* wait, a wait in progress ends with the return of the call and not with the
\* end of the sleep, and the call returns the error of the context (or nil, when
\* the attempt in progress still succeeded).
C21_StopsOnCancel ==
    nctxDone =>
        /\ bo.pc # "sleep" => bo'.pc # "sleep"
        /\ (bo.pc = "sleep" /\ bo'.pc # "sleep") => Len(boRet') = Len(boRet) + 1
        /\ Len(boRet') = Len(boRet) + 1 =>
             boRet'[Len(boRet')].err \in {"nil", "context canceled"}

C21_CancellableBackoff == [][C21_StopsOnCancel]_vars

\* The bytes of the files 0..n-1 of a directory, in order.
RECURSIVE DirBytes(_, _)
DirBytes(dir, n) ==
    IF n = 0 THEN <<>>
    ELSE DirBytes(dir, n - 1) \o (IF (n - 1) \in DOMAIN dir THEN dir[n - 1] ELSE <<>>)

\* C22: every catalogued model has a directory of its own that holds, in its
\* chunk files, all the bytes given to its StoreModel, and no chunk of one model
\* is a chunk of another.
C22_PrivateChunks ==
    /\ \A id \in DOMAIN metadata :
         /\ id \in DOMAIN disk
         /\ DirBytes(disk[id], Len(metadata[id].Chunks)) = stored[id].input
    /\ \A a, b \in DOMAIN metadata :
         a # b => Elements(metadata[a].Chunks) \cap Elements(metadata[b].Chunks) = {}

\* The waits of a call whose every attempt fails, in seconds.
Schedule == <<1, 2, 4, 8, 16, 32>>

\* C23: the waits of a call of connectToPeerWithBackoff are the first ones of 1, 2,
\* 4, 8, 16, 32 seconds, the delay is the last wait doubled, and a call that
\* returns "max backoff reached" has made exactly these six waits and seven
\* attempts.
C23_BackoffSchedule ==
    /\ bo.pc # "idle" =>
         /\ IsPrefix(bo.waits, Schedule)
         /\ bo.backoff = IF bo.pc = "sleep" THEN Schedule[Len(bo.waits)]
                         ELSE IF bo.waits = <<>> THEN 1
                         ELSE 2 * bo.waits[Len(bo.waits)]
    /\ \A i \in DOMAIN boRet :
         /\ IsPrefix(boRet[i].waits, Schedule)
         /\ boRet[i].err = "max backoff reached" =>
              /\ boRet[i].waits = Schedule
              /\ boRet[i].attempts = 7

\* A call of connectToPeerWithBackoff, not cancelled, has returned "max backoff
\* reached".
C23_Witness ==
    /\ ~nctxDone
    /\ \E i \in DOMAIN boRet :
         boRet[i].err = "max backoff reached" /\ boRet[i].attempts = 7

\* C24: every catalogued model with n chunks has a directory that holds exactly
\* the files of the indices 0..n-1, none longer than ChunkSize.
C24_Layout ==
    \A id \in DOMAIN metadata :
        LET n == Len(metadata[id].Chunks) IN
        /\ id \in DOMAIN disk
        /\ DOMAIN disk[id] = 0..(n - 1)
        /\ \A j \in DOMAIN disk[id] : Len(disk[id][j]) <= ChunkSize

\* C24: a model enters the catalog in a step that writes no file, made by the
\* StoreModel that wrote its chunks; until then the model is not in the catalog.
C24_VisibleWhenWritten ==
    /\ st.pc = "split" => st.id \notin DOMAIN metadata
    /\ \A id \in DOMAIN metadata' \ DOMAIN metadata :
         /\ id = st.id
         /\ disk' = disk
         /\ DOMAIN disk[id] = 0..(Len(metadata'[id].Chunks) - 1)

C24_OnDiskLayout == []C24_Layout /\ [][C24_VisibleWhenWritten]_vars

\* A StoreModel of three chunks, the last a short one, has returned while another
\* model is in the catalog.
C24_Witness ==
    /\ ret.op = "StoreModel"
    /\ ret.err = "nil"
    /\ Len(ret.meta.Chunks) = 3
    /\ Len(disk[ret.id][2]) < ChunkSize
    /\ Cardinality(DOMAIN metadata) = 2

\* A call of connectToPeerWithBackoff was made or is in progress.
BootstrapBegun == bo.pc # "idle" \/ boRet # <<>> \/ bootIdx > 1

\* C25: a component exists only when the ones Start creates before it do; the
\* bootstrap connections begin only with the discovery service running; the
\* receive loop is started only after the call for the last parseable entry of
\* the list has returned, each call having succeeded, exhausted its backoff or
\* been cancelled; and a Start that returned an error has run no later step.
C25_Order ==
    /\ comp["dht"] # "nil" => comp["host"] # "nil"
    /\ comp["pubsub"] # "nil" => (comp["dht"] # "nil" /\ start.ret # "failed to initialize DHT")
    /\ comp["topic"] # "nil" => comp["pubsub"] # "nil"
    /\ comp["subscription"] # "nil" => comp["topic"] # "nil"
    /\ comp["mdns"] # "nil" => comp["subscription"] # "nil"
    /\ BootstrapBegun => comp["mdns"] # "nil"
    /\ loop # "none" =>
         /\ comp["mdns"] # "nil"
         /\ bo.pc = "idle"
         /\ Len(boRet) = Len(Parseable)
         /\ \A i \in DOMAIN boRet :
              ~boRet[i].cancelled => boRet[i].err \in {"nil", "max backoff reached"}
         /\ start.ret = "nil"
    /\ (start.pc = "done" /\ start.ret # "nil") =>
         /\ loop = "none"
         /\ ~BootstrapBegun
         /\ comp["mdns"] = "nil"
         /\ start.ret = "failed to create host" => \A c \in Components : comp[c] = "nil"
         /\ start.ret = "failed to initialize DHT" => comp["pubsub"] = "nil"
         /\ start.ret = "failed to initialize PubSub" => comp["subscription"] = "nil"

\* C25: once Start has returned, no step of it follows.
C25_NothingAfterReturn ==
    start.pc = "done" =>
        (comp' = comp /\ loop' = loop /\ boRet' = boRet /\ bo' = bo /\ start' = start)

C25_StartSequence == []C25_Order /\ [][C25_NothingAfterReturn]_vars

\* The loop runs after two calls of connectToPeerWithBackoff, the first of which
\* exhausted its backoff.
C25_Witness ==
    /\ loop = "running"
    /\ Len(boRet) = 2
    /\ boRet[1].err = "max backoff reached"
    /\ ~nctxDone

\* C26: the receive loop returns only when the context is cancelled, and a read
\* that fails while the context is not cancelled leaves the loop running, at
\* its next read.
C26_ExitsOnCancelOnly ==
    /\ (loop = "running" /\ loop' = "exited") => nctxDone
    /\ readErrs' # readErrs => (~nctxDone /\ loop = "running" /\ loop' = "running")

\* C26 (as claimed): and once the context is cancelled no message is given to
\* processMessage.
C26_ExitCondition ==
    [][C26_ExitsOnCancelOnly /\ (nctxDone => dispatched' = dispatched)]_vars

\* C26 (amended): and the step that ends the loop gives no message to
\* processMessage, nor does any step after it; a message the subscription
\* returns to a loop still running is dispatched, cancelled context or not.
C26_ExitConditionOnError ==
    [][C26_ExitsOnCancelOnly /\ (loop' = "exited" => dispatched' = dispatched)]_vars

\* The subscription was cancelled, two reads failed and the loop went on; then the
\* context was cancelled and the loop returned, having dispatched a message.
C26_Witness ==
    /\ loop = "exited"
    /\ readErrs = MaxReadErrs
    /\ dispatched # <<>>

\* The message was forwarded by another peer.
SentByOther(m) == m.receivedFrom # Self

\* C27: the processMessage calls started are, in order and one for one, the
\* messages the loop received from other peers.
C27_OneCallEach == dispatched = SelectSeq(pulled, SentByOther)

\* C27: the loop takes the messages in the order the subscription holds them, and
\* a message from another peer starts one more call, after the calls before it.
C27_InOrder ==
    pulled' # pulled =>
        /\ subq # <<>>
        /\ pulled' = Append(pulled, Head(subq))
        /\ subq' = Tail(subq)
        /\ dispatched' = IF SentByOther(Head(subq)) THEN Append(dispatched, Head(subq))
                         ELSE dispatched

C27_DispatchInOrder == []C27_OneCallEach /\ [][C27_InOrder]_vars

\* Two equal messages of a peer were received, around a message of the node itself,
\* and a call was started for each of the two.
C27_Witness ==
    /\ Len(pulled) = 3
    /\ pulled[1] = pulled[3]
    /\ pulled[2].from = Self
    /\ Len(dispatched) = 2

\* C28: when ProcessModelData returns the error of a StoreBlock, the blocks that
\* the call stored before, and that were not there when it began, are off the
\* directory; with an unsupported format the directory is as it was.
C28_WriteCleanup ==
    /\ (pmRet.op = "ProcessModelData" /\ pmRet.err = "store") =>
         \A h \in Elements(pmRet.stored) : h \in DOMAIN blocks => h \in DOMAIN pmRet.dir0
    /\ (pmRet.op = "ProcessModelData" /\ pmRet.err = "unsupported format") =>
         blocks = pmRet.dir0

\* C29: a background task runs only after the network started with success, the
\* discovery before the maintenance; Node.Start returns the error of the network
\* with no task launched, or nil with both; Node.Stop returns what the Stop of
\* the network returned.
C29_NodeOrdering ==
    /\ node.start \in {"idle", "network"} => (node.tasks = <<>> /\ node.startRet = "")
    /\ start.pc # "idle" => node.start # "idle"
    /\ node.tasks # <<>> => (start.pc = "done" /\ start.ret = "nil")
    /\ node.start = "maintenance" => node.tasks = <<"discovery">>
    /\ node.start = "done" =>
         /\ node.startRet = start.ret
         /\ node.tasks = IF start.ret = "nil" THEN <<"discovery", "maintenance">>
                         ELSE <<>>
    /\ node.stop = "idle" => stop.pc = "idle"
    /\ node.stop = "done" => (stop.pc = "done" /\ node.stopRet = stop.ret)

\* Node.Start returned nil with both tasks launched, and Node.Stop returned the
\* error of the Stop of the network.
C29_Witness ==
    /\ node.startRet = "nil"
    /\ Len(node.tasks) = 2
    /\ node.stop = "done"
    /\ node.stopRet \notin {"", "nil"}

\* C30: after Stop was called on a Running network whose context is never
\* cancelled, a read of the subscription that fails ends the receive loop: the
\* loop does not go on to read again.
C30_ErrorEndsLoop ==
    ( /\ start.pc = "done" /\ start.ret = "nil"
      /\ stop.pc # "idle"
      /\ ~nctxDone /\ ~nctxDone'
      /\ loop = "running"
      /\ readErrs' # readErrs ) => loop' = "exited"

C30_LoopTerminates == [][C30_ErrorEndsLoop]_vars

\* C31: when Stop has returned on a network whose host was created, that call
\* has closed the host, whatever closing the DHT returned.
C31_StopReleasesHost ==
    (stop.pc = "done" /\ stop.was["host"] # "nil") =>
        \E i \in 1..Len(stop.log) : stop.log[i] = "host"

\* C32: over the calls of Start and Stop on one Network, a host is created only
\* when none was created before, a receive loop is launched only when none was
\* launched before, and Stop calls Cancel or Close only on a component that is
\* open.
C32_OnceEach ==
    /\ (start'.pc = "dht" /\ start.pc # "dht") => comp["host"] = "nil"
    /\ (start.pc = "bootstrap" /\ start'.pc = "done" /\ start'.ret = "nil") =>
           loop = "none"
    /\ Len(stop'.log) > Len(stop.log) => comp[stop'.log[Len(stop'.log)]] = "open"

C32_LifecycleDiscipline == [][C32_OnceEach]_vars

\* C33: every request a network handler of the API has served ran against the
\* Network the node started, and none ended in the dereference of an unset host.
C33_StartedOverlay ==
    \A i \in 1..Len(app.served) :
        /\ app.served[i].network = "node"
        /\ app.served[i].err = "nil"

\* C34: a DeleteObject of an object that CreateObject made, with no concurrent
\* activity and no failure of the file system, returns success; the object is
\* then not found and none of its blocks is left in the block store.
C34_DeletionCompletes ==
    ( /\ oret.op = "DeleteObject"
      /\ oret.err \notin {"object not found", "unmarshal"}
      /\ ~oret.fault ) =>
        /\ oret.err = "nil"
        /\ GetObjectErr(oret.id) = "object not found"
        /\ \A i \in 1..Len(oret.hashes) : oret.hashes[i] \notin DOMAIN blocks

\* C35: after DeleteObject(a) returned success, every block of every other object
\* that was in the block store when the call began is still there.
C35_OthersUndamaged ==
    (oret.op = "DeleteObject" /\ oret.err = "nil") =>
        \A b \in DOMAIN objects \ {oret.id} :
            \A i \in 1..Len(objects[b].BlockHashes) :
                objects[b].BlockHashes[i] \in DOMAIN oret.dir0 =>
                    objects[b].BlockHashes[i] \in DOMAIN blocks

\* The bytes StoreModel wrote to the chunk files of a model: the first Size bytes
\* of its input.
StoredContent(id) == SubSeq(stored[id].input, 1, stored[id].meta.Size)

\* C36: a StreamModel(id) that returns success while or after a DeleteModel(id)
\* that began during the stream has written all the bytes the chunk files of the
\* model held before the deletion; it never returns success with a chunk
\* truncated or missing.
C36_StreamOrError ==
    (ret.op = "StreamModel" /\ ret.err = "nil" /\ ret.id \in gone) =>
        ret.out = StoredContent(ret.id)

\* A StreamModel of a model of more than one chunk returned success while the
\* DeleteModel of the same model was removing its files.
C36_Witness ==
    /\ ret.op = "StreamModel" /\ ret.err = "nil"
    /\ dm.pc = "remove" /\ dm.id = ret.id
    /\ Len(ret.out) > ChunkSize

\* C37: every collection that CreateCollection returned is the one GetCollection
\* gives under its id, so that n creations leave n collections to retrieve.
C37_Addressable ==
    /\ \A ptr \in 1..Len(heap) :
         /\ heap[ptr].ID \in DOMAIN collections
         /\ collections[heap[ptr].ID] = ptr
    /\ Cardinality(DOMAIN collections) = Len(heap)

====
